---- MODULE Spec2Model ----
(***************************************************************************)
(* Event synchronization and fan-out of w3b2-connector.                    *)
(*                                                                         *)
(*   ledger -> catch-up worker / live worker -> broadcast channel          *)
(*          -> Dispatcher -> per-key mpsc channel -> listener              *)
(*                                                                         *)
(* A ledger event is identified by its position i in the ledger: its slot  *)
(* and its signature are both i.  The broadcast channel is kept as the     *)
(* sequence of everything ever sent on it plus the receiver's cursor; the  *)
(* retained window is the last BroadcastCapacity entries.                  *)
(***************************************************************************)
EXTENDS Integers, Sequences, FiniteSets, TLC

\* ---------------------------------------------------------------- bounds
MaxEvents == 2
BroadcastCapacity == 1
RegistrationCapacity == 1
ListenerCapacity == 1

\* ------------------------------------------------------------- constants
NoChan == 0
NoSig == 0

Keys == {"A", "B", "C"}
\* keys for which a consumer asks to listen
SubKeys == {"A", "B"}

VARIABLES
    ledger,      \* the external ledger: sequence of events produced so far
    db,          \* SledStorage: [last_slot, last_sig]
    cu,          \* catch-up worker: [pc, next, tip]
    lv,          \* live worker: [pc, next]
    published,   \* everything sent on the broadcast channel, in order
    rx_pos,      \* Dispatcher.event_rx: number of broadcast entries passed
    d,           \* Dispatcher::run position: [pc, ev_en, reg_en, idx, todo]
    listeners,   \* Dispatcher.listeners: key -> channel (NoChan: absent)
    reg_q,       \* registration inbox (bounded mpsc)
    reg_open,    \* some sender of the registration inbox is alive
    chans,       \* per-listener mpsc channels: [key, q, rx]
    sent,        \* log of the Dispatcher's successful sends: <<chan, idx>>
    disk,        \* SledStorage: what of db is durable
    wr,          \* a caller of set_sync_state: [pc, slot, sig, before]
    rd,          \* a reader of the cursor: [pc, slot, sig]
    written,     \* the argument pairs of the set_sync_state calls so far
    grpc,        \* a stream_events task: [pc, start, pos, out, log, client]
    fw,          \* a gateway forwarding task: [pc, key, chan, ev, out, client]
    shutdown,    \* the shutdown signal has been given
    admin_account,    \* admin PDA -> AdminAccount.meta
    user_account,     \* user PDA -> UserAccount.meta
    cmd,              \* the last instruction's user_account, sender and
                      \* recipient accounts, its payload length and the
                      \* CommandEvents it emitted
    funding_request,  \* the FundingRequest account
    lamports,         \* account -> balance
    ret,              \* the last instruction: [tick, instr, err] and the
                      \* signers and accounts it was given
    admin_profile,    \* AdminProfile: [balance, lamports, prices]
    user_profile,     \* UserProfile: [deposit_balance, lamports]
    wallet,           \* lamports of the user's authority and of the
                      \* destination of a withdrawal
    op,               \* the last profile instruction: [tick, instr, amount,
                      \* err]
    kdb,              \* SledKeystore.db: id -> StorableCard (NoCard: absent)
    kc,               \* the callers of create_new_card: [pc, id, password,
                      \* bip39_passphrase, metadata, ret]
    ld,               \* the last load_card: [tick, id, password,
                      \* bip39_passphrase, ret]
    kd,               \* a caller of update_metadata: [pc, id,
                      \* storable_data, metadata], and the last
                      \* delete_card: [del_id, del_err]
    em_run,           \* EventManager::run: "running" or "returned"
    sub               \* the sub-streams of a user listener and the task
                      \* that forwards them: [personal, interactions,
                      \* service, merged, pc, cat, out]

\* the storage as seen by its direct callers
storeVars == <<disk, wr, rd, written>>

\* the state outside the synchronization pipeline
\* the stream and forwarding tasks and the shutdown signal
gwVars == <<grpc, fw, shutdown>>

\* the accounts of the on-chain program
progVars == <<admin_account, user_account, cmd, funding_request, lamports,
              ret>>

\* the profiles of the program's later instruction set
profileVars == <<admin_profile, user_profile, wallet, op>>

\* the state of the later developments
\* the keystore and its callers
keyVars == <<kdb, kc, ld, kd>>

\* the task of EventManager::run
runVars == <<em_run>>

\* the sub-streams of a listen_as_user stream
subVars == <<sub>>

yvars == <<profileVars, keyVars, runVars, subVars>>

xvars == <<storeVars, gwVars, progVars, yvars>>

\* the pipeline state but the cursor
pipeVars == <<ledger, cu, lv, published, rx_pos, d, listeners, reg_q,
              reg_open, chans, sent>>

vars == <<ledger, db, cu, lv, published, rx_pos, d, listeners, reg_q,
          reg_open, chans, sent, xvars>>

\* ------------------------------------------------------- event variants
SingleKinds == {"AdminProfileRegistered", "AdminCommKeyUpdated",
                "AdminPricesUpdated", "AdminFundsWithdrawn",
                "AdminProfileClosed", "UserCommKeyUpdated",
                "UserFundsDeposited", "UserFundsWithdrawn",
                "UserProfileClosed", "OffChainActionLogged"}
PairKinds == {"UserProfileCreated", "UserCommandDispatched",
              "AdminCommandDispatched"}

\* the events the ledger may produce in this model
EventShapes ==
    { [kind |-> "Unknown", k1 |-> "A", k2 |-> "A"],
      [kind |-> "UserFundsDeposited", k1 |-> "B", k2 |-> "B"],
      [kind |-> "UserCommandDispatched", k1 |-> "A", k2 |-> "C"],
      [kind |-> "UserProfileCreated", k1 |-> "A", k2 |-> "A"] }

\* Mutant: every event is relevant to every key.
extract_pubkeys_all(event) == <<"A", "B">>

\* Relevant keys of an event, in the order the code lists them.
extract_pubkeys_from_event(event) ==
    IF event.kind \in SingleKinds THEN <<event.k1>>
    ELSE IF event.kind \in PairKinds THEN <<event.k1, event.k2>>
    ELSE <<>>

Range(s) == {s[i] : i \in 1..Len(s)}

\* ------------------------------------------------------ broadcast channel
\* Mutant: a bounded channel whose sender waits for the slowest receiver.
BroadcastCanSendBlocking(pub, pos) == Len(pub) - pos < BroadcastCapacity

\* broadcast::Sender::send never waits for a receiver.
BroadcastCanSend(pub, pos) == TRUE

\* number of entries the receiver at cursor pos has lost
Lag(pub, pos) ==
    IF Len(pub) - pos > BroadcastCapacity
    THEN Len(pub) - BroadcastCapacity - pos ELSE 0

\* every sender is dropped: both worker tasks have ended
Ended == {"done", "failed", "store_failed"}
bc_closed == cu.pc \in Ended /\ lv.pc \in Ended

\* ------------------------------------------------ on-chain program state
\* a balance is a u64; here it has LamportBits bits
LamportBits == 4
U64 == 2 ^ LamportBits

\* Rent::minimum_balance of the admin PDA
RentExemptMinimum == 2

\* FundingStatus
Pending == 0
Approved == 1
Rejected == 2

Authorities == {"adm1", "adm2"}
CoSigners == {"co1", "co2"}
Wallets == {"w1", "w2"}

\* the address derived from seeds [b"admin", authority, co_signer]
AdminPda(authority, co_signer) ==
    IF authority = "adm1" /\ co_signer = "co1" THEN "pda1"
    ELSE IF authority = "adm2" /\ co_signer = "co2" THEN "pda2"
    ELSE "pda0"

\* the admin PDAs that have been registered
AdminPdas == {"pda1", "pda2"}

\* the address derived from seeds [b"user", authority, co_signer]
UserPda(authority, co_signer) ==
    IF authority = "adm2" /\ co_signer = "co1" THEN "upda1" ELSE "upda0"

\* the user PDAs that have been registered
UserPdas == {"upda1"}

\* communication keys
CommKeys == {"ck1", "ck2"}

\* no account besides those of ret, and no CommandEvent
NoCmd == [user_account |-> "none", sender |-> "none", recipient |-> "none",
          payload_len |-> 0, events |-> <<>>]

\* the amounts a user may ask for
Amounts == {1, 3, 7, 12}

\* the FundingRequest account before request_funding has created it
NoRequest == [exists |-> FALSE, user_wallet |-> "w1", target_admin |-> "adm1",
              amount |-> 0, status |-> Pending]

\* the lamports a profile PDA holds for its rent
ProfileRent == 1

\* the lamports of the user's authority at the start
InitialFunds == 3

\* the amounts of a deposit or withdrawal, the commands and their prices
ProfileAmounts == {1, 2}
CommandIds == {1}
Prices == {0, 1, 2}

\* the callers of create_new_card, and what they and load_card are given;
\* an Option is a sequence of at most one element
Callers == {1, 2}
CardIds == {"id1", "id2"}
Passwords == {"pw1", "pw2"}
Passphrases == {<<>>, <<"">>, <<"pp">>}
Metadata == {"md1", "md2"}

\* no card under an id, and no result of a call
NoCard == [encrypted_mnemonic_phrase |-> <<>>, salt |-> 0, nonce |-> 0,
           metadata |-> "md1"]
NoRet == [err |-> "none", pubkey |-> <<0, "">>, metadata |-> "md1"]

\* ----------------------------------------------------------------- Init
Init ==
    /\ ledger = <<>>
    /\ db = [last_slot |-> 0, last_sig |-> NoSig]
    /\ cu = [pc |-> "init", next |-> 0, tip |-> 0]
    /\ lv = [pc |-> "init", next |-> 0]
    /\ published = <<>>
    /\ rx_pos = 0
    /\ d = [pc |-> "select", ev_en |-> TRUE, reg_en |-> TRUE,
            idx |-> 0, todo |-> <<>>]
    /\ listeners = [k \in Keys |-> NoChan]
    /\ reg_q = <<>>
    /\ reg_open = TRUE
    /\ chans = <<>>
    /\ sent = <<>>
    /\ disk = db
    /\ wr = [pc |-> "idle", slot |-> 0, sig |-> NoSig, before |-> db]
    /\ rd = [pc |-> "idle", slot |-> 0, sig |-> NoSig]
    /\ written = {}
    /\ grpc = [pc |-> "none", start |-> 0, pos |-> 0, out |-> <<>>,
               log |-> <<>>, client |-> FALSE]
    /\ fw = [pc |-> "none", key |-> "A", chan |-> NoChan, ev |-> 0,
             out |-> <<>>, client |-> FALSE]
    /\ shutdown = FALSE
    /\ admin_account =
          [a \in AdminPdas |->
              IF a = "pda1"
              THEN [owner |-> "adm1", co_signer |-> "co1",
                    communication_pubkey |-> "ck1", active |-> TRUE]
              ELSE [owner |-> "adm2", co_signer |-> "co2",
                    communication_pubkey |-> "ck1", active |-> TRUE]]
    /\ user_account =
          [u \in UserPdas |->
              [owner |-> "adm2", co_signer |-> "co1",
               communication_pubkey |-> "ck1", active |-> TRUE]]
    /\ cmd = NoCmd
    /\ admin_profile = [balance |-> 0, lamports |-> ProfileRent,
                        prices |-> [c \in CommandIds |-> 1]]
    /\ user_profile = [deposit_balance |-> 0, lamports |-> ProfileRent]
    /\ wallet = [authority |-> InitialFunds, destination |-> 0]
    /\ op = [tick |-> 0, instr |-> "none", amount |-> 0, err |-> "none"]
    /\ kdb = [id \in CardIds |-> NoCard]
    /\ kc = [k \in Callers |->
                [pc |-> "idle", id |-> "id1", password |-> "pw1",
                 bip39_passphrase |-> <<>>, metadata |-> "md1",
                 ret |-> NoRet]]
    /\ ld = [tick |-> 0, id |-> "id1", password |-> "pw1",
             bip39_passphrase |-> <<>>, ret |-> NoRet]
    /\ kd = [pc |-> "idle", id |-> "id1", storable_data |-> NoCard,
             metadata |-> "md1", del_id |-> "id1", del_err |-> "none"]
    /\ em_run = "running"
    /\ sub = [personal |-> 0, interactions |-> 0, service |-> 0,
              merged |-> 0, pc |-> "recv", cat |-> "None", out |-> <<>>]
    /\ funding_request = NoRequest
    /\ lamports = [a \in AdminPdas \cup Wallets |->
                     IF a = "pda1" THEN 8
                     ELSE IF a = "pda2" THEN 4
                     ELSE IF a = "w1" THEN 1 ELSE 0]
    /\ ret = [tick |-> 0, instr |-> "none", err |-> "none",
              authority |-> "none", co_signer |-> "none", admin |-> "none",
              user_wallet |-> "none"]

\* --------------------------------------------------------------- ledger
\* the events the ledger produces when the workers read it: the content of
\* an event plays no part in what the workers do with it
LedgerShapes ==
    { [kind |-> "UserCommandDispatched", k1 |-> "A", k2 |-> "C"] }

\* The external program appends one event to the ledger.
Produce ==
    /\ Len(ledger) < MaxEvents
    /\ \E s \in LedgerShapes : ledger' = Append(ledger, s)
    /\ UNCHANGED xvars
    /\ UNCHANGED <<db, cu, lv, published, rx_pos, d, listeners, reg_q,
                   reg_open, chans, sent>>

\* -------------------------------------------------------------- storage
\* the arguments of the direct calls of set_sync_state in this model
Slots == {1, 2}
Sigs == {1, 2}

\* the pair a cursor record holds
Pair(c) == <<c.last_slot, c.last_sig>>

\* the pair an empty database reads as
InitialPair == <<0, NoSig>>

\* Mutant: the two keys are not written together: only last_slot is.
set_sync_state_slot_only(slot, sig) ==
    [last_slot |-> slot, last_sig |-> db.last_sig]

\* The content of the tree after the transaction of set_sync_state: both
\* keys are inserted by one transaction.
set_sync_state(slot, sig) == [last_slot |-> slot, last_sig |-> sig]

\* set_sync_state(slot, sig) is called and its transaction commits; the
\* call goes on to flush_async().await.
StoreCommit ==
    /\ wr.pc # "flush"
    /\ \E slot \in Slots, sig \in Sigs :
          /\ db' = set_sync_state(slot, sig)
          /\ wr' = [pc |-> "flush", slot |-> slot, sig |-> sig, before |-> db]
          /\ written' = written \cup {<<slot, sig>>}
    /\ UNCHANGED <<pipeVars, gwVars, progVars, yvars, disk, rd>>

\* set_sync_state(slot, sig) is called and its transaction fails: the call
\* returns Err and nothing is written.
StoreTxFail ==
    /\ wr.pc # "flush"
    /\ \E slot \in Slots, sig \in Sigs :
          /\ wr' = [pc |-> "err", slot |-> slot, sig |-> sig, before |-> db]
          /\ written' = written \cup {<<slot, sig>>}
    /\ UNCHANGED <<pipeVars, gwVars, progVars, yvars, db, disk, rd>>

\* flush_async().await succeeds: the tree is durable, the call returns Ok.
StoreFlushOk ==
    /\ wr.pc = "flush"
    /\ disk' = db
    /\ wr' = [wr EXCEPT !.pc = "ok"]
    /\ UNCHANGED <<pipeVars, gwVars, progVars, yvars, db, rd, written>>

\* flush_async().await fails: `?` returns the error from set_sync_state.
StoreFlushFail ==
    /\ wr.pc = "flush"
    /\ wr' = [wr EXCEPT !.pc = "err"]
    /\ UNCHANGED <<pipeVars, gwVars, progVars, yvars, db, disk, rd, written>>

\* sled's own periodic flush makes the tree durable.
BackgroundFlush ==
    /\ disk # db
    /\ disk' = db
    /\ UNCHANGED <<pipeVars, gwVars, progVars, yvars, db, wr, rd, written>>

\* The process crashes and is started again: the database opens with its
\* durable content; the calls in progress are gone.
Crash ==
    /\ db' = disk
    /\ wr' = [wr EXCEPT !.pc = "crashed"]
    /\ rd' = [pc |-> "idle", slot |-> 0, sig |-> NoSig]
    /\ UNCHANGED <<pipeVars, gwVars, progVars, yvars, disk, written>>

\* get_last_slot: the reader reads key "last_slot".
get_last_slot ==
    /\ rd.pc # "slot"
    /\ rd' = [pc |-> "slot", slot |-> db.last_slot, sig |-> NoSig]
    /\ UNCHANGED <<pipeVars, gwVars, progVars, yvars, db, disk, wr, written>>

\* get_last_sig: the reader then reads key "last_sig".
get_last_sig ==
    /\ rd.pc = "slot"
    /\ rd' = [rd EXCEPT !.pc = "pair", !.sig = db.last_sig]
    /\ UNCHANGED <<pipeVars, gwVars, progVars, yvars, db, disk, wr, written>>

StoreNext ==
    \/ StoreCommit
    \/ StoreTxFail
    \/ StoreFlushOk
    \/ StoreFlushFail
    \/ BackgroundFlush
    \/ Crash
    \/ get_last_slot
    \/ get_last_sig

\* the storage against a writer, a reader and crashes
StoreSpec == Init /\ [][StoreNext]_vars

\* ------------------------------------------------------- catch-up worker
\* Reads the cursor and the current tip.
CatchupStart ==
    /\ cu.pc = "init"
    /\ cu' = [pc |-> "run", next |-> db.last_slot + 1, tip |-> Len(ledger)]
    /\ UNCHANGED xvars
    /\ UNCHANGED <<ledger, db, lv, published, rx_pos, d, listeners, reg_q,
                   reg_open, chans, sent>>

\* Publishes the next historical event.
CatchupPublish ==
    /\ cu.pc = "run"
    /\ cu.next <= cu.tip
    /\ BroadcastCanSend(published, rx_pos)
    /\ published' = Append(published, cu.next)
    /\ cu' = [cu EXCEPT !.pc = "commit"]
    /\ UNCHANGED xvars
    /\ UNCHANGED <<ledger, db, lv, rx_pos, d, listeners, reg_q, reg_open,
                   chans, sent>>

\* Advances the cursor past the event just published.
CatchupCommit ==
    /\ cu.pc = "commit"
    /\ db' = set_sync_state(cu.next, cu.next)
    /\ cu' = [cu EXCEPT !.pc = "run", !.next = cu.next + 1]
    /\ UNCHANGED xvars
    /\ UNCHANGED <<ledger, lv, published, rx_pos, d, listeners, reg_q,
                   reg_open, chans, sent>>

\* set_sync_state returns Err, with the cursor written (the flush failed)
\* or not (the transaction failed): run() returns the error, the task logs
\* it and ends.
CatchupCommitFail ==
    /\ cu.pc = "commit"
    /\ \E r \in {db, set_sync_state(cu.next, cu.next)} : db' = r
    /\ cu' = [cu EXCEPT !.pc = "store_failed"]
    /\ UNCHANGED xvars
    /\ UNCHANGED <<ledger, lv, published, rx_pos, d, listeners, reg_q,
                   reg_open, chans, sent>>

\* The tip recorded at the start is reached: the worker ends.
CatchupDone ==
    /\ cu.pc = "run"
    /\ cu.next > cu.tip
    /\ cu' = [cu EXCEPT !.pc = "done"]
    /\ UNCHANGED xvars
    /\ UNCHANGED <<ledger, db, lv, published, rx_pos, d, listeners, reg_q,
                   reg_open, chans, sent>>

\* A terminal source error: run() returns Err, the task logs it and ends.
CatchupFail ==
    /\ cu.pc = "run"
    /\ cu' = [cu EXCEPT !.pc = "failed"]
    /\ UNCHANGED xvars
    /\ UNCHANGED <<ledger, db, lv, published, rx_pos, d, listeners, reg_q,
                   reg_open, chans, sent>>

\* ----------------------------------------------------------- live worker
\* Subscribes to the events produced from now on.
LiveSubscribe ==
    /\ lv.pc = "init"
    /\ lv' = [pc |-> "run", next |-> Len(ledger) + 1]
    /\ UNCHANGED xvars
    /\ UNCHANGED <<ledger, db, cu, published, rx_pos, d, listeners, reg_q,
                   reg_open, chans, sent>>

LivePublish ==
    /\ lv.pc = "run"
    /\ lv.next <= Len(ledger)
    /\ BroadcastCanSend(published, rx_pos)
    /\ published' = Append(published, lv.next)
    /\ lv' = [lv EXCEPT !.pc = "commit"]
    /\ UNCHANGED xvars
    /\ UNCHANGED <<ledger, db, cu, rx_pos, d, listeners, reg_q, reg_open,
                   chans, sent>>

LiveCommit ==
    /\ lv.pc = "commit"
    /\ db' = set_sync_state(lv.next, lv.next)
    /\ lv' = [lv EXCEPT !.pc = "run", !.next = lv.next + 1]
    /\ UNCHANGED xvars
    /\ UNCHANGED <<ledger, cu, published, rx_pos, d, listeners, reg_q,
                   reg_open, chans, sent>>

LiveCommitFail ==
    /\ lv.pc = "commit"
    /\ \E r \in {db, set_sync_state(lv.next, lv.next)} : db' = r
    /\ lv' = [lv EXCEPT !.pc = "store_failed"]
    /\ UNCHANGED xvars
    /\ UNCHANGED <<ledger, cu, published, rx_pos, d, listeners, reg_q,
                   reg_open, chans, sent>>

LiveFail ==
    /\ lv.pc = "run"
    /\ lv' = [lv EXCEPT !.pc = "failed"]
    /\ UNCHANGED xvars
    /\ UNCHANGED <<ledger, db, cu, published, rx_pos, d, listeners, reg_q,
                   reg_open, chans, sent>>

\* ----------------------------------------------------------- Dispatcher
\* a new iteration of the loop: a fresh select! with both branches enabled
Select == [pc |-> "select", ev_en |-> TRUE, reg_en |-> TRUE,
           idx |-> 0, todo |-> <<>>]

\* the event at index i of the broadcast channel
EventAt(i) == ledger[published[i]]

\* Case 1 of select!: event_rx.recv() returned Ok(event).
DispatcherRecvEvent ==
    /\ d.pc = "select"
    /\ d.ev_en
    /\ Lag(published, rx_pos) = 0
    /\ rx_pos < Len(published)
    /\ rx_pos' = rx_pos + 1
    /\ LET relevant_pubkeys == extract_pubkeys_from_event(EventAt(rx_pos + 1))
       IN  d' = IF relevant_pubkeys = <<>> THEN Select
                ELSE [pc |-> "route", ev_en |-> TRUE, reg_en |-> TRUE,
                      idx |-> rx_pos + 1, todo |-> relevant_pubkeys]
    /\ UNCHANGED xvars
    /\ UNCHANGED <<ledger, db, cu, lv, published, listeners, reg_q, reg_open,
                   chans, sent>>

\* event_rx.recv() returned Err(Lagged(n)): the pattern Ok(event) does not
\* match, so select! disables the branch and goes on waiting on the others.
DispatcherRecvLagged ==
    /\ d.pc = "select"
    /\ d.ev_en
    /\ Lag(published, rx_pos) > 0
    /\ rx_pos' = rx_pos + Lag(published, rx_pos)
    /\ d' = [d EXCEPT !.ev_en = FALSE]
    /\ UNCHANGED xvars
    /\ UNCHANGED <<ledger, db, cu, lv, published, listeners, reg_q, reg_open,
                   chans, sent>>

\* event_rx.recv() returned Err(Closed): the branch is disabled.
DispatcherRecvClosed ==
    /\ d.pc = "select"
    /\ d.ev_en
    /\ rx_pos = Len(published)
    /\ bc_closed
    /\ d' = [d EXCEPT !.ev_en = FALSE]
    /\ UNCHANGED xvars
    /\ UNCHANGED <<ledger, db, cu, lv, published, rx_pos, listeners, reg_q,
                   reg_open, chans, sent>>

\* the send to the channel of key k would fail: its receiver is dropped
SendFails(k) == listeners[k] # NoChan /\ ~chans[listeners[k]].rx

\* the send to the channel of key k has to wait: the channel is full
SendWaits(k) ==
    /\ listeners[k] # NoChan
    /\ chans[listeners[k]].rx
    /\ Len(chans[listeners[k]].q) >= ListenerCapacity

\* One round of `for pubkey in relevant_pubkeys`: listener_tx.send(..).await
\* for the next key; a failed send is only logged.
DispatcherSend ==
    /\ d.pc = "route"
    /\ LET pubkey == Head(d.todo)
           c == listeners[pubkey]
       IN  /\ ~SendWaits(pubkey)
           /\ IF c # NoChan /\ chans[c].rx
              THEN /\ chans' = [chans EXCEPT ![c].q = Append(@, d.idx)]
                   /\ sent' = Append(sent, <<c, d.idx>>)
              ELSE UNCHANGED <<chans, sent>>
    /\ d' = IF Tail(d.todo) = <<>> THEN Select
            ELSE [d EXCEPT !.todo = Tail(d.todo)]
    /\ UNCHANGED xvars
    /\ UNCHANGED <<ledger, db, cu, lv, published, rx_pos, listeners, reg_q,
                   reg_open>>

\* Mutant: a key that is registered keeps its channel.
DispatcherRegisterKeepFirst ==
    /\ d.pc = "select"
    /\ d.reg_en
    /\ reg_q # <<>>
    /\ Head(reg_q).op = "reg"
    /\ listeners' = IF listeners[Head(reg_q).key] = NoChan
                    THEN [listeners EXCEPT
                              ![Head(reg_q).key] = Head(reg_q).chan]
                    ELSE listeners
    /\ reg_q' = Tail(reg_q)
    /\ d' = Select
    /\ UNCHANGED xvars
    /\ UNCHANGED <<ledger, db, cu, lv, published, rx_pos, reg_open, chans,
                   sent>>

\* Case 2 of select!: a registration arrived.
DispatcherRegister ==
    /\ d.pc = "select"
    /\ d.reg_en
    /\ reg_q # <<>>
    /\ Head(reg_q).op = "reg"
    /\ listeners' = [listeners EXCEPT ![Head(reg_q).key] = Head(reg_q).chan]
    /\ reg_q' = Tail(reg_q)
    /\ d' = Select
    /\ UNCHANGED xvars
    /\ UNCHANGED <<ledger, db, cu, lv, published, rx_pos, reg_open, chans,
                   sent>>

\* Mutant: a deregistration drops every registration.
DispatcherUnregisterAll ==
    /\ d.pc = "select"
    /\ d.reg_en
    /\ reg_q # <<>>
    /\ Head(reg_q).op = "unreg"
    /\ listeners' = [k \in Keys |-> NoChan]
    /\ reg_q' = Tail(reg_q)
    /\ d' = Select
    /\ UNCHANGED xvars
    /\ UNCHANGED <<ledger, db, cu, lv, published, rx_pos, reg_open, chans,
                   sent>>

\* A deregistration arrived: the entry of the key, if any, is removed.
DispatcherUnregister ==
    /\ d.pc = "select"
    /\ d.reg_en
    /\ reg_q # <<>>
    /\ Head(reg_q).op = "unreg"
    /\ listeners' = [listeners EXCEPT ![Head(reg_q).key] = NoChan]
    /\ reg_q' = Tail(reg_q)
    /\ d' = Select
    /\ UNCHANGED xvars
    /\ UNCHANGED <<ledger, db, cu, lv, published, rx_pos, reg_open, chans,
                   sent>>

\* registration_rx.recv() returned None: the branch is disabled.
DispatcherRegClosed ==
    /\ d.pc = "select"
    /\ d.reg_en
    /\ reg_q = <<>>
    /\ ~reg_open
    /\ d' = [d EXCEPT !.reg_en = FALSE]
    /\ UNCHANGED xvars
    /\ UNCHANGED <<ledger, db, cu, lv, published, rx_pos, listeners, reg_q,
                   reg_open, chans, sent>>

\* else branch: every branch of select! is disabled, the loop breaks.
DispatcherExit ==
    /\ d.pc = "select"
    /\ ~d.ev_en
    /\ ~d.reg_en
    /\ d' = [d EXCEPT !.pc = "done"]
    /\ UNCHANGED xvars
    /\ UNCHANGED <<ledger, db, cu, lv, published, rx_pos, listeners, reg_q,
                   reg_open, chans, sent>>

\* -------------------------------------------------------- Event Manager
\* Creates the channel of a listener and sends its registration.
subscribe_raw(pubkey) ==
    /\ reg_open
    /\ d.pc # "done"
    /\ Len(reg_q) < RegistrationCapacity
    /\ chans' = Append(chans, [key |-> pubkey, q |-> <<>>, rx |-> TRUE])
    /\ reg_q' = Append(reg_q, [op |-> "reg", key |-> pubkey,
                               chan |-> Len(chans) + 1])
    /\ UNCHANGED xvars
    /\ UNCHANGED <<ledger, db, cu, lv, published, rx_pos, d, listeners,
                   reg_open, sent>>

\* Sends the deregistration of a key.
unsubscribe(pubkey) ==
    /\ reg_open
    /\ d.pc # "done"
    /\ Len(reg_q) < RegistrationCapacity
    /\ reg_q' = Append(reg_q, [op |-> "unreg", key |-> pubkey,
                               chan |-> NoChan])
    /\ UNCHANGED xvars
    /\ UNCHANGED <<ledger, db, cu, lv, published, rx_pos, d, listeners,
                   reg_open, chans, sent>>

\* a consumer asks to listen to a key; each key is asked for once
Subscribe ==
    \E k \in SubKeys :
        /\ \A c \in 1..Len(chans) : chans[c].key # k
        /\ subscribe_raw(k)

\* a consumer asks to stop listening to a key, registered or not
Unsubscribe == \E k \in SubKeys : unsubscribe(k)

\* The last sender of the registration inbox is dropped.
DropRegistrationSenders ==
    /\ reg_open
    /\ reg_open' = FALSE
    /\ UNCHANGED xvars
    /\ UNCHANGED <<ledger, db, cu, lv, published, rx_pos, d, listeners,
                   reg_q, chans, sent>>

\* ------------------------------------------------------------- listeners
\* The consumer of channel c takes the next event.
ListenerRecv ==
    \E c \in 1..Len(chans) :
        /\ chans[c].rx
        /\ chans[c].q # <<>>
        /\ chans' = [chans EXCEPT ![c].q = Tail(@)]
        /\ UNCHANGED xvars
        /\ UNCHANGED <<ledger, db, cu, lv, published, rx_pos, d, listeners,
                       reg_q, reg_open, sent>>

\* The consumer of channel c goes away: the receiver is dropped.
ListenerDrop ==
    \E c \in 1..Len(chans) :
        /\ chans[c].rx
        /\ chans' = [chans EXCEPT ![c].rx = FALSE, ![c].q = <<>>]
        /\ UNCHANGED xvars
        /\ UNCHANGED <<ledger, db, cu, lv, published, rx_pos, d, listeners,
                       reg_q, reg_open, sent>>

\* ------------------------------------------- event source of the Dispatcher
\* Some worker publishes a new ledger event on the broadcast channel.
SourcePublish ==
    /\ ~bc_closed
    /\ Len(ledger) < MaxEvents
    /\ BroadcastCanSend(published, rx_pos)
    /\ \E s \in EventShapes : ledger' = Append(ledger, s)
    /\ published' = Append(published, Len(ledger) + 1)
    /\ UNCHANGED xvars
    /\ UNCHANGED <<db, cu, lv, rx_pos, d, listeners, reg_q, reg_open, chans,
                   sent>>

\* Both worker tasks end: every sender of the broadcast channel is dropped.
SourceClose ==
    /\ ~bc_closed
    /\ cu' = [cu EXCEPT !.pc = "done"]
    /\ lv' = [lv EXCEPT !.pc = "done"]
    /\ UNCHANGED xvars
    /\ UNCHANGED <<ledger, db, published, rx_pos, d, listeners, reg_q,
                   reg_open, chans, sent>>

\* ------------------------------------------------- gRPC stream_events
\* capacity of the channel towards the stream client
StreamCapacity == 128

None == "None"

\* Mutant: every event, the unknown variant too, has a message.
convert_event_to_proto_all(event) == [event |-> event.kind]

\* The message of an event: the unknown variant has none.
convert_event_to_proto(event) ==
    IF event.kind \in SingleKinds \cup PairKinds
    THEN [event |-> event.kind] ELSE [event |-> None]

\* A client calls stream_events: a new receiver of the broadcast channel
\* is made, which gets what is sent from now on, and the task is spawned.
stream_events ==
    /\ grpc.pc = "none"
    /\ grpc' = [pc |-> "recv", start |-> Len(published),
                pos |-> Len(published), out |-> <<>>, log |-> <<>>,
                client |-> TRUE]
    /\ UNCHANGED <<pipeVars, db, storeVars, progVars, yvars, fw, shutdown>>

\* event_rx.recv() returned Ok(event): an event without message is passed
\* over, another is to be sent to the client.
StreamRecvEvent ==
    /\ grpc.pc = "recv"
    /\ Lag(published, grpc.pos) = 0
    /\ grpc.pos < Len(published)
    /\ LET proto_event == convert_event_to_proto(EventAt(grpc.pos + 1))
       IN  grpc' = [grpc EXCEPT !.pos = @ + 1,
                                !.pc = IF proto_event.event # None
                                       THEN "send" ELSE "recv"]
    /\ UNCHANGED <<pipeVars, db, storeVars, progVars, yvars, fw, shutdown>>

\* tx.send(Ok(proto_event)).await: fails when the client is gone, which
\* ends the task.
StreamSend ==
    /\ grpc.pc = "send"
    /\ ~grpc.client \/ Len(grpc.out) < StreamCapacity
    /\ grpc' = IF grpc.client
               THEN [grpc EXCEPT !.pc = "recv",
                                 !.out = Append(@, grpc.pos),
                                 !.log = Append(@, grpc.pos)]
               ELSE [grpc EXCEPT !.pc = "done"]
    /\ UNCHANGED <<pipeVars, db, storeVars, progVars, yvars, fw, shutdown>>

\* event_rx.recv() returned Err (Lagged or Closed): the task ends.
StreamRecvErr ==
    /\ grpc.pc = "recv"
    /\ \/ Lag(published, grpc.pos) > 0
       \/ (bc_closed /\ grpc.pos = Len(published))
    /\ grpc' = [grpc EXCEPT !.pc = "done"]
    /\ UNCHANGED <<pipeVars, db, storeVars, progVars, yvars, fw, shutdown>>

\* The stream client takes the next message.
StreamClientRecv ==
    /\ grpc.client
    /\ grpc.out # <<>>
    /\ grpc' = [grpc EXCEPT !.out = Tail(@)]
    /\ UNCHANGED <<pipeVars, db, storeVars, progVars, yvars, fw, shutdown>>

\* The stream client disconnects.
StreamClientDrop ==
    /\ grpc.client
    /\ grpc' = [grpc EXCEPT !.client = FALSE, !.out = <<>>]
    /\ UNCHANGED <<pipeVars, db, storeVars, progVars, yvars, fw, shutdown>>

\* ------------------------------------------- gateway forwarding task
\* capacity of the channel towards the client of a listen_as_* stream
OutputCapacity == 1

\* every Sender of channel c is gone: the Dispatcher holds none and no
\* registration that carries one is in the inbox
SendersGone(c) ==
    /\ \A k \in Keys : listeners[k] # c
    /\ \A i \in 1..Len(reg_q) : reg_q[i].chan # c

\* listen_as_user / listen_as_admin: the listener of the key is created,
\* which sends its registration, and the forwarding task is spawned.
listen_as_user ==
    /\ fw.pc = "none"
    /\ reg_open
    /\ d.pc # "done"
    /\ Len(reg_q) < RegistrationCapacity
    /\ \E pubkey \in SubKeys :
          /\ chans' = Append(chans, [key |-> pubkey, q |-> <<>>, rx |-> TRUE])
          /\ reg_q' = Append(reg_q, [op |-> "reg", key |-> pubkey,
                                     chan |-> Len(chans) + 1])
          /\ fw' = [pc |-> "recv", key |-> pubkey, chan |-> Len(chans) + 1,
                    ev |-> 0, out |-> <<>>, client |-> TRUE]
    /\ UNCHANGED <<ledger, db, cu, lv, published, rx_pos, d, listeners,
                   reg_open, sent, storeVars, progVars, yvars,
                   grpc, shutdown>>

\* listen_as_user with an entry of specific_services_to_follow that is
\* not a key: the listener of the user's key is created first, which sends
\* its registration; parse_pubkey of the entry then fails and the handler
\* returns the error, dropping the listener. No task is spawned.
listen_as_user_invalid_service ==
    /\ fw.pc = "none"
    /\ reg_open
    /\ d.pc # "done"
    /\ Len(reg_q) < RegistrationCapacity
    /\ \E pubkey \in SubKeys :
          /\ chans' = Append(chans, [key |-> pubkey, q |-> <<>>, rx |-> FALSE])
          /\ reg_q' = Append(reg_q, [op |-> "reg", key |-> pubkey,
                                     chan |-> Len(chans) + 1])
          /\ fw' = [pc |-> "failed", key |-> pubkey, chan |-> Len(chans) + 1,
                    ev |-> 0, out |-> <<>>, client |-> FALSE]
    /\ UNCHANGED <<ledger, db, cu, lv, published, rx_pos, d, listeners,
                   reg_open, sent, storeVars, progVars, yvars,
                   grpc, shutdown>>

\* A branch `Some(event) = ..recv()` of the task's select!: an event of
\* the listener is taken.
FwdRecv ==
    /\ fw.pc = "recv"
    /\ chans[fw.chan].q # <<>>
    /\ fw' = [fw EXCEPT !.pc = "send", !.ev = Head(chans[fw.chan].q)]
    /\ chans' = [chans EXCEPT ![fw.chan].q = Tail(@)]
    /\ UNCHANGED <<ledger, db, cu, lv, published, rx_pos, d, listeners,
                   reg_q, reg_open, sent, storeVars, progVars, yvars,
                   grpc, shutdown>>

\* tx.send(Ok(msg)).await: it fails when the client is gone, and only
\* then does the loop break.
FwdSend ==
    /\ fw.pc = "send"
    /\ ~fw.client \/ Len(fw.out) < OutputCapacity
    /\ fw' = IF fw.client
             THEN [fw EXCEPT !.pc = "recv", !.out = Append(@, fw.ev)]
             ELSE [fw EXCEPT !.pc = "unsub"]
    /\ UNCHANGED <<pipeVars, db, storeVars, progVars, yvars, grpc, shutdown>>

\* else => break: every channel of the listener is closed and empty.
FwdClosed ==
    /\ fw.pc = "recv"
    /\ chans[fw.chan].q = <<>>
    /\ SendersGone(fw.chan)
    /\ fw' = [fw EXCEPT !.pc = "unsub"]
    /\ UNCHANGED <<pipeVars, db, storeVars, progVars, yvars, grpc, shutdown>>

\* After the loop: event_manager.unsubscribe(pubkey).await, then the task
\* ends and drops the receivers of the listener.
FwdUnsubscribe ==
    /\ fw.pc = "unsub"
    /\ reg_open
    /\ d.pc # "done"
    /\ Len(reg_q) < RegistrationCapacity
    /\ reg_q' = Append(reg_q, [op |-> "unreg", key |-> fw.key,
                               chan |-> NoChan])
    /\ chans' = [chans EXCEPT ![fw.chan].rx = FALSE, ![fw.chan].q = <<>>]
    /\ fw' = [fw EXCEPT !.pc = "ended"]
    /\ UNCHANGED <<ledger, db, cu, lv, published, rx_pos, d, listeners,
                   reg_open, sent, storeVars, progVars, yvars,
                   grpc, shutdown>>

\* The client of the stream takes the next message.
ClientRecv ==
    /\ fw.client
    /\ fw.out # <<>>
    /\ fw' = [fw EXCEPT !.out = Tail(@)]
    /\ UNCHANGED <<pipeVars, db, storeVars, progVars, yvars, grpc, shutdown>>

\* The client of the stream disconnects: the receiver of the output
\* channel is dropped.
ClientDisconnect ==
    /\ fw.client
    /\ fw' = [fw EXCEPT !.client = FALSE, !.out = <<>>]
    /\ UNCHANGED <<pipeVars, db, storeVars, progVars, yvars, grpc, shutdown>>

\* -------------------------------------------------------------- shutdown
\* EventManagerHandle::stop on Ctrl+C: the shutdown signal is given.
stop ==
    /\ ~shutdown
    /\ shutdown' = TRUE
    /\ UNCHANGED <<pipeVars, db, storeVars, progVars, yvars, grpc, fw>>

\* The readers see the signal and end: the Synchronizer publishes nothing
\* more and the Senders of the broadcast channel are dropped.
WorkersStop ==
    /\ shutdown
    /\ ~bc_closed
    /\ cu' = [cu EXCEPT !.pc = "done"]
    /\ lv' = [lv EXCEPT !.pc = "done"]
    /\ UNCHANGED <<ledger, db, published, rx_pos, d, listeners, reg_q,
                   reg_open, chans, sent, xvars>>

\* The handles of the Event Manager are dropped, and with them the last
\* Sender of the registration inbox.
HandlesDropped ==
    /\ shutdown
    /\ reg_open
    /\ reg_open' = FALSE
    /\ UNCHANGED <<ledger, db, cu, lv, published, rx_pos, d, listeners,
                   reg_q, chans, sent, xvars>>

\* ------------------------------------------------------ on-chain program
\* an instruction that fails changes no account
Failed(err) ==
    [err |-> err, lamports |-> lamports, funding_request |-> funding_request]

\* What the runtime makes of an instruction that returned Ok(()) with the
\* balances bal: it is rejected when an account the program does not own
\* was debited or when the sum of the balances changed.
RuntimeVerify(bal, fr) ==
    IF \E w \in Wallets : bal[w] < lamports[w]
    THEN Failed("ExternalAccountLamportSpend")
    ELSE IF \E a \in DOMAIN bal : bal[a] # lamports[a]
            /\ (bal["pda1"] + bal["pda2"] + bal["w1"] + bal["w2"]
                # lamports["pda1"] + lamports["pda2"] + lamports["w1"]
                  + lamports["w2"])
         THEN Failed("UnbalancedInstruction")
         ELSE [err |-> "Ok", lamports |-> bal, funding_request |-> fr]

\* The body of approve_funding after the checks of the request: the rent
\* check and the transfer, on u64 without overflow checks.
ApproveTransfer(admin, user_wallet) ==
    LET amount_to_transfer == funding_request.amount
        from == (lamports[admin] - amount_to_transfer) % U64
        to == (lamports[user_wallet] + amount_to_transfer) % U64
    IN  IF from < RentExemptMinimum
        THEN Failed("AdminInsufficientFunds")
        ELSE RuntimeVerify(
                 [lamports EXCEPT ![admin] = from, ![user_wallet] = to],
                 [funding_request EXCEPT !.status = Approved])

\* The outcomes of approve_funding with the given accounts; check_status
\* tells whether the request has to be pending.
ApproveOutcomes(check_status, admin_authority, admin_co_signer, admin, user_wallet) ==
    IF admin # AdminPda(admin_authority, admin_co_signer)
    THEN {Failed("ConstraintSeeds")}
    ELSE IF \/ admin_account[admin].owner # admin_authority
            \/ admin_account[admin].co_signer # admin_co_signer
    THEN {Failed("Unauthorized")}
    ELSE IF ~funding_request.exists
    THEN {Failed("AccountNotInitialized")}
    ELSE IF ~admin_account[admin].active
    THEN {Failed("SenderInactive")}
    ELSE IF funding_request.target_admin # admin_authority
    THEN {Failed("Unauthorized")}
    ELSE IF check_status /\ funding_request.status # Pending
    THEN {Failed("RequestAlreadyProcessed")}
    ELSE IF lamports[admin] < funding_request.amount
    THEN {Failed("ProgramFailedToComplete"),
          ApproveTransfer(admin, user_wallet)}
    ELSE {ApproveTransfer(admin, user_wallet)}

\* Mutant: the status of the request is not looked at.
approve_funding_any_status(admin_authority, admin_co_signer, admin, user_wallet) ==
    ApproveOutcomes(FALSE, admin_authority, admin_co_signer, admin,
                    user_wallet)

\* approve_funding. The subtraction of the rent check overflows when the
\* amount exceeds the balance: the build either panics there or wraps.
approve_funding(admin_authority, admin_co_signer, admin, user_wallet) ==
    ApproveOutcomes(TRUE, admin_authority, admin_co_signer, admin,
                    user_wallet)

\* An approve_funding instruction with any signers and accounts.
ApproveFunding ==
    /\ \E admin_authority \in Authorities, admin_co_signer \in CoSigners,
          admin \in AdminPdas, user_wallet \in Wallets :
          \E r \in approve_funding(admin_authority, admin_co_signer, admin,
                                   user_wallet) :
              /\ lamports' = r.lamports
              /\ funding_request' = r.funding_request
              /\ ret' = [tick |-> 1 - ret.tick, instr |-> "approve_funding",
                         err |-> r.err, authority |-> admin_authority,
                         co_signer |-> admin_co_signer, admin |-> admin,
                         user_wallet |-> user_wallet]
    /\ cmd' = NoCmd
    /\ UNCHANGED <<pipeVars, db, storeVars, gwVars, yvars, admin_account,
                   user_account>>

\* request_funding: creates the FundingRequest of a user.
RequestFunding ==
    /\ \E user_wallet \in Wallets, amount \in Amounts,
          target_admin \in Authorities :
          /\ funding_request' =
                IF funding_request.exists THEN funding_request
                ELSE [exists |-> TRUE, user_wallet |-> user_wallet,
                      target_admin |-> target_admin, amount |-> amount,
                      status |-> Pending]
          /\ ret' = [tick |-> 1 - ret.tick, instr |-> "request_funding",
                     err |-> IF funding_request.exists
                             THEN "AccountAlreadyInUse" ELSE "Ok",
                     authority |-> "none", co_signer |-> "none",
                     admin |-> "none", user_wallet |-> user_wallet]
    /\ cmd' = NoCmd
    /\ UNCHANGED <<pipeVars, db, storeVars, gwVars, yvars, admin_account,
                   user_account, lamports>>

\* deactivate_admin by the signers of an admin PDA.
DeactivateAdmin ==
    /\ \E authority \in Authorities, co_signer \in CoSigners,
          admin \in AdminPdas :
          LET ok == /\ admin = AdminPda(authority, co_signer)
                    /\ admin_account[admin].owner = authority
                    /\ admin_account[admin].co_signer = co_signer
          IN  /\ admin_account' =
                    IF ok THEN [admin_account EXCEPT ![admin].active = FALSE]
                    ELSE admin_account
              /\ ret' = [tick |-> 1 - ret.tick, instr |-> "deactivate_admin",
                         err |-> IF ok THEN "Ok" ELSE "ConstraintSeeds",
                         authority |-> authority, co_signer |-> co_signer,
                         admin |-> admin, user_wallet |-> "none"]
    /\ cmd' = NoCmd
    /\ UNCHANGED <<pipeVars, db, storeVars, gwVars, yvars, user_account,
                   funding_request, lamports>>

\* The account constraints of the multi-sig contexts: seeds, then the two
\* constraints on the stored owner and co_signer.
MetaConstraints(expected, account, meta, authority, co_signer) ==
    IF account # expected THEN "ConstraintSeeds"
    ELSE IF meta.owner # authority \/ meta.co_signer # co_signer
    THEN "Unauthorized"
    ELSE "Ok"

\* deactivate_user under the constraints of DeactivateUser
deactivate_user(authority, co_signer, user) ==
    LET c == MetaConstraints(UserPda(authority, co_signer), user,
                             user_account[user], authority, co_signer)
    IN  IF c # "Ok" THEN [err |-> c, user_account |-> user_account]
        ELSE [err |-> "Ok",
              user_account |-> [user_account EXCEPT ![user].active = FALSE]]

\* A deactivate_user instruction with any signers.
DeactivateUser ==
    /\ \E authority \in Authorities, co_signer \in CoSigners,
          user \in UserPdas :
          LET r == deactivate_user(authority, co_signer, user)
          IN  /\ user_account' = r.user_account
              /\ ret' = [tick |-> 1 - ret.tick, instr |-> "deactivate_user",
                         err |-> r.err, authority |-> authority,
                         co_signer |-> co_signer, admin |-> "none",
                         user_wallet |-> "none"]
              /\ cmd' = [NoCmd EXCEPT !.user_account = user]
    /\ UNCHANGED <<pipeVars, db, storeVars, gwVars, yvars, admin_account,
                   funding_request, lamports>>

\* An update_admin_comm_key instruction with any signers and key.
UpdateAdminCommKey ==
    /\ \E authority \in Authorities, co_signer \in CoSigners,
          admin \in AdminPdas, new_key \in CommKeys :
          LET c == MetaConstraints(AdminPda(authority, co_signer), admin,
                                   admin_account[admin], authority,
                                   co_signer)
          IN  /\ admin_account' =
                    IF c = "Ok"
                    THEN [admin_account EXCEPT
                              ![admin].communication_pubkey = new_key]
                    ELSE admin_account
              /\ ret' = [tick |-> 1 - ret.tick,
                         instr |-> "update_admin_comm_key", err |-> c,
                         authority |-> authority, co_signer |-> co_signer,
                         admin |-> admin, user_wallet |-> "none"]
    /\ cmd' = NoCmd
    /\ UNCHANGED <<pipeVars, db, storeVars, gwVars, yvars, user_account,
                   funding_request, lamports>>

\* An update_user_comm_key instruction with any signers and key.
UpdateUserCommKey ==
    /\ \E authority \in Authorities, co_signer \in CoSigners,
          user \in UserPdas, new_key \in CommKeys :
          LET c == MetaConstraints(UserPda(authority, co_signer), user,
                                   user_account[user], authority, co_signer)
          IN  /\ user_account' =
                    IF c = "Ok"
                    THEN [user_account EXCEPT
                              ![user].communication_pubkey = new_key]
                    ELSE user_account
              /\ ret' = [tick |-> 1 - ret.tick,
                         instr |-> "update_user_comm_key", err |-> c,
                         authority |-> authority, co_signer |-> co_signer,
                         admin |-> "none", user_wallet |-> "none"]
              /\ cmd' = [NoCmd EXCEPT !.user_account = user]
    /\ UNCHANGED <<pipeVars, db, storeVars, gwVars, yvars, admin_account,
                   funding_request, lamports>>

\* the payload limit of dispatch_command and the lengths tried
MaxPayload == 1024
PayloadLens == {MaxPayload, MaxPayload + 1}

\* the accounts a dispatch_command may be given: the profiles and the
\* FundingRequest account
DispatchAccounts == AdminPdas \cup UserPdas \cup {"req"}

\* the account is owned by the program
ProgramOwned(a) ==
    a \in AdminPdas \cup UserPdas \/ (a = "req" /\ funding_request.exists)

\* the account deserializes as a UserAccount or as an AdminAccount
IsProfile(a) == a \in AdminPdas \cup UserPdas

\* the AccountMeta of a profile
Meta(a) == IF a \in AdminPdas THEN admin_account[a] ELSE user_account[a]

\* The outcome of dispatch_command; check_active tells whether the active
\* flags of the two accounts are looked at.
DispatchOutcome(check_active, authority, co_signer, sender, recipient, payload_len) ==
    IF ~ProgramOwned(sender) \/ ~ProgramOwned(recipient)
    THEN [err |-> "InvalidAccountOwner", events |-> <<>>]
    ELSE IF payload_len > MaxPayload
    THEN [err |-> "PayloadTooLarge", events |-> <<>>]
    ELSE IF ~IsProfile(sender)
    THEN [err |-> "InvalidAccountType", events |-> <<>>]
    ELSE IF \/ Meta(sender).owner # authority
            \/ Meta(sender).co_signer # co_signer
    THEN [err |-> "Unauthorized", events |-> <<>>]
    ELSE IF check_active /\ ~Meta(sender).active
    THEN [err |-> "SenderInactive", events |-> <<>>]
    ELSE IF ~IsProfile(recipient)
    THEN [err |-> "InvalidAccountType", events |-> <<>>]
    ELSE IF check_active /\ ~Meta(recipient).active
    THEN [err |-> "RecipientInactive", events |-> <<>>]
    ELSE [err |-> "Ok",
          events |-> <<[sender |-> authority, target |-> recipient]>>]

\* Mutant: the active flags are not looked at.
dispatch_command_any_active(authority, co_signer, sender, recipient, payload_len) ==
    DispatchOutcome(FALSE, authority, co_signer, sender, recipient,
                    payload_len)

\* dispatch_command between two profiles
dispatch_command(authority, co_signer, sender, recipient, payload_len) ==
    DispatchOutcome(TRUE, authority, co_signer, sender, recipient,
                    payload_len)

\* A dispatch_command instruction with any signers, accounts and payload.
DispatchCommand ==
    /\ \E authority \in Authorities, co_signer \in CoSigners,
          sender \in DispatchAccounts, recipient \in DispatchAccounts,
          payload_len \in PayloadLens :
          LET r == dispatch_command(authority, co_signer, sender, recipient,
                                    payload_len)
          IN  /\ ret' = [tick |-> 1 - ret.tick, instr |-> "dispatch_command",
                         err |-> r.err, authority |-> authority,
                         co_signer |-> co_signer, admin |-> "none",
                         user_wallet |-> "none"]
              /\ cmd' = [user_account |-> "none", sender |-> sender,
                         recipient |-> recipient,
                         payload_len |-> payload_len, events |-> r.events]
    /\ UNCHANGED <<pipeVars, db, storeVars, gwVars, yvars, admin_account,
                   user_account, funding_request, lamports>>

ProgNext ==
    \/ RequestFunding
    \/ ApproveFunding
    \/ DeactivateAdmin

\* the instructions that look at the active flag, and those that clear it
CmdNext ==
    \/ RequestFunding
    \/ ApproveFunding
    \/ DeactivateAdmin
    \/ DeactivateUser
    \/ DispatchCommand

\* commands and approvals against any sequence of deactivations
CmdSpec == Init /\ [][CmdNext]_vars

\* the instructions whose context is bound to two signers
\* What `init` makes of the account of a register instruction: the
\* address is derived from the seeds, and the account is created by the
\* System Program, which refuses an address that is in use.
InitConstraint(expected, account, registered) ==
    IF account # expected THEN "ConstraintSeeds"
    ELSE IF account \in registered THEN "AccountAlreadyInUse"
    ELSE "Ok"

\* register_admin under the constraints of RegisterAdmin: an account that
\* is created is none of those this model follows.
register_admin(authority, co_signer, admin, communication_pubkey) ==
    [err |-> InitConstraint(AdminPda(authority, co_signer), admin, AdminPdas),
     admin_account |-> admin_account]

\* A register_admin instruction with any signers, address and key.
RegisterAdmin ==
    /\ \E authority \in Authorities, co_signer \in CoSigners,
          admin \in AdminPdas \cup {"pda0"}, communication_pubkey \in CommKeys :
          LET r == register_admin(authority, co_signer, admin,
                                  communication_pubkey)
          IN  /\ admin_account' = r.admin_account
              /\ ret' = [tick |-> 1 - ret.tick, instr |-> "register_admin",
                         err |-> r.err, authority |-> authority,
                         co_signer |-> co_signer, admin |-> admin,
                         user_wallet |-> "none"]
    /\ cmd' = NoCmd
    /\ UNCHANGED <<pipeVars, db, storeVars, gwVars, yvars, user_account,
                   funding_request, lamports>>

\* Mutant: the account is initialised again when it exists.
register_user_if_needed(user_wallet, co_signer, user, communication_pubkey) ==
    LET c == InitConstraint(UserPda(user_wallet, co_signer), user, {})
    IN  IF c = "Ok" /\ user \in UserPdas
        THEN [err |-> "Ok",
              user_account |->
                  [user_account EXCEPT
                       ![user] = [owner |-> user_wallet,
                                  co_signer |-> co_signer,
                                  communication_pubkey |-> communication_pubkey,
                                  active |-> TRUE]]]
        ELSE [err |-> c, user_account |-> user_account]

\* register_user under the constraints of RegisterUser: an account that is
\* created is none of those this model follows.
register_user(user_wallet, co_signer, user, communication_pubkey) ==
    [err |-> InitConstraint(UserPda(user_wallet, co_signer), user, UserPdas),
     user_account |-> user_account]

\* A register_user instruction with any signers, address and key.
RegisterUser ==
    /\ \E user_wallet \in Authorities, co_signer \in CoSigners,
          user \in UserPdas \cup {"upda0"}, communication_pubkey \in CommKeys :
          LET r == register_user(user_wallet, co_signer, user,
                                 communication_pubkey)
          IN  /\ user_account' = r.user_account
              /\ ret' = [tick |-> 1 - ret.tick, instr |-> "register_user",
                         err |-> r.err, authority |-> user_wallet,
                         co_signer |-> co_signer, admin |-> "none",
                         user_wallet |-> "none"]
              /\ cmd' = [NoCmd EXCEPT !.user_account = user]
    /\ UNCHANGED <<pipeVars, db, storeVars, gwVars, yvars, admin_account,
                   funding_request, lamports>>

LifeNext ==
    \/ RegisterAdmin
    \/ RegisterUser
    \/ DeactivateAdmin
    \/ DeactivateUser
    \/ UpdateAdminCommKey
    \/ UpdateUserCommKey

\* the instructions that write the metadata of an account
LifeSpec == Init /\ [][LifeNext]_vars

AuthNext ==
    \/ RequestFunding
    \/ ApproveFunding
    \/ DeactivateAdmin
    \/ DeactivateUser
    \/ UpdateAdminCommKey
    \/ UpdateUserCommKey

\* the multi-sig instructions with any signers
AuthSpec == Init /\ [][AuthNext]_vars

\* the program against any sequence of instructions
ProgSpec == Init /\ [][ProgNext]_vars

\* ------------------------------------------------- profiles and payments
\* the record of a profile instruction
Op(instr, amount, err) ==
    [tick |-> 1 - op.tick, instr |-> instr, amount |-> amount, err |-> err]

\* user_profile_deposit: lamports go from the authority to the user PDA and
\* are added to deposit_balance.
user_profile_deposit ==
    /\ \E amount \in ProfileAmounts :
          IF wallet.authority < amount
          THEN /\ op' = Op("user_profile_deposit", amount, "InsufficientFunds")
               /\ UNCHANGED <<user_profile, wallet>>
          ELSE /\ user_profile' =
                     [deposit_balance |-> user_profile.deposit_balance + amount,
                      lamports |-> user_profile.lamports + amount]
               /\ wallet' = [wallet EXCEPT !.authority = @ - amount]
               /\ op' = Op("user_profile_deposit", amount, "Ok")
    /\ UNCHANGED <<pipeVars, db, storeVars, gwVars, progVars, keyVars, runVars,
                   subVars,
                   admin_profile>>

\* Mutant: the lamports leave the user PDA and deposit_balance stays.
user_withdraw_lamports_only(amount) ==
    [user_profile EXCEPT !.lamports = @ - amount]

\* the UserProfile after a withdrawal: the amount is taken from the
\* lamports of the PDA and from deposit_balance
user_withdraw(amount) ==
    [deposit_balance |-> user_profile.deposit_balance - amount,
     lamports |-> user_profile.lamports - amount]

\* user_profile_withdraw: lamports go from the user PDA to the destination
\* and are taken from deposit_balance.
user_profile_withdraw ==
    /\ \E amount \in ProfileAmounts :
          IF user_profile.deposit_balance < amount
          THEN /\ op' = Op("user_profile_withdraw", amount, "InsufficientBalance")
               /\ UNCHANGED <<user_profile, wallet>>
          ELSE /\ user_profile' = user_withdraw(amount)
               /\ wallet' = [wallet EXCEPT !.destination = @ + amount]
               /\ op' = Op("user_profile_withdraw", amount, "Ok")
    /\ UNCHANGED <<pipeVars, db, storeVars, gwVars, progVars, keyVars, runVars,
                   subVars,
                   admin_profile>>

\* admin_profile_withdraw: lamports go from the admin PDA to the destination
\* and are taken from balance.
admin_profile_withdraw ==
    /\ \E amount \in ProfileAmounts :
          IF admin_profile.balance < amount
          THEN /\ op' = Op("admin_profile_withdraw", amount, "InsufficientBalance")
               /\ UNCHANGED <<admin_profile, wallet>>
          ELSE /\ admin_profile' =
                     [admin_profile EXCEPT !.balance = @ - amount,
                                           !.lamports = @ - amount]
               /\ wallet' = [wallet EXCEPT !.destination = @ + amount]
               /\ op' = Op("admin_profile_withdraw", amount, "Ok")
    /\ UNCHANGED <<pipeVars, db, storeVars, gwVars, progVars, keyVars, runVars,
                   subVars,
                   user_profile>>

\* update_admin_profile_prices: the admin replaces its price list.
update_admin_profile_prices ==
    /\ \E new_prices \in [CommandIds -> Prices] :
          /\ admin_profile' = [admin_profile EXCEPT !.prices = new_prices]
          /\ op' = Op("update_admin_profile_prices", 0, "Ok")
    /\ UNCHANGED <<pipeVars, db, storeVars, gwVars, progVars, keyVars, runVars,
                   subVars,
                   user_profile, wallet>>

\* Mutant: the user pays the price and the admin is credited nothing.
user_dispatch_command_uncredited(command_id) ==
    LET price == admin_profile.prices[command_id]
    IN  IF user_profile.deposit_balance < price
        THEN [err |-> "InsufficientBalance", user |-> user_profile,
              admin |-> admin_profile]
        ELSE [err |-> "Ok",
              user |-> [deposit_balance |->
                            user_profile.deposit_balance - price,
                        lamports |-> user_profile.lamports - price],
              admin |-> admin_profile]

\* dispatch_command of a user: the price of the command goes from the
\* user's deposit_balance to the admin's balance, and so do the lamports.
user_dispatch_command(command_id) ==
    LET price == admin_profile.prices[command_id]
    IN  IF user_profile.deposit_balance < price
        THEN [err |-> "InsufficientBalance", user |-> user_profile,
              admin |-> admin_profile]
        ELSE [err |-> "Ok",
              user |-> [deposit_balance |->
                            user_profile.deposit_balance - price,
                        lamports |-> user_profile.lamports - price],
              admin |-> [admin_profile EXCEPT !.balance = @ + price,
                                              !.lamports = @ + price]]

\* A dispatch_command instruction of the user.
UserDispatchCommand ==
    /\ \E command_id \in CommandIds :
          LET r == user_dispatch_command(command_id)
          IN  /\ user_profile' = r.user
              /\ admin_profile' = r.admin
              /\ op' = Op("dispatch_command",
                          admin_profile.prices[command_id], r.err)
    /\ UNCHANGED <<pipeVars, db, storeVars, gwVars, progVars, keyVars, runVars,
                   subVars,
                   wallet>>

ProfileNext ==
    \/ user_profile_deposit
    \/ user_profile_withdraw
    \/ admin_profile_withdraw
    \/ update_admin_profile_prices
    \/ UserDispatchCommand

\* the profiles against any sequence of instructions
ProfileSpec == Init /\ [][ProfileNext]_vars

\* ------------------------------------------------------------- keystore
\* Crypto::derive_key: Argon2 of the password and the salt
derive_key(password, salt) == <<password, salt>>

\* Crypto::encrypt with the nonce it has generated: AES-256-GCM
encrypt(plaintext, key, nonce) ==
    <<[key |-> key, nonce |-> nonce, plaintext |-> plaintext]>>

\* Mutant: the key is not authenticated.
decrypt_any_key(ciphertext, nonce, key) ==
    [err |-> "Ok", plaintext |-> ciphertext[1].plaintext]

\* Crypto::decrypt: fails unless key and nonce are those of the encryption
decrypt(ciphertext, nonce, key) ==
    IF ciphertext[1].key = key /\ ciphertext[1].nonce = nonce
    THEN [err |-> "Ok", plaintext |-> ciphertext[1].plaintext]
    ELSE [err |-> "Decryption failed", plaintext |-> 0]

\* the passphrase given to Mnemonic::to_seed: the empty string if None
bip39_pass(bip39_passphrase) ==
    IF bip39_passphrase = <<>> THEN "" ELSE bip39_passphrase[1]

\* the public key of keypair_from_seed(mnemonic.to_seed(bip39_pass))
pubkey_from_seed(mnemonic, bip39_passphrase) ==
    <<mnemonic, bip39_pass(bip39_passphrase)>>

\* create_new_card is called; its first step is contains_key.
CreateContainsKey(k) ==
    /\ kc[k].pc = "idle"
    /\ \E id \in CardIds, password \in Passwords,
          bip39_passphrase \in Passphrases, metadata \in Metadata :
          kc' = [kc EXCEPT ![k] =
                    [pc |-> IF kdb[id] # NoCard THEN "done" ELSE "insert",
                     id |-> id, password |-> password,
                     bip39_passphrase |-> bip39_passphrase,
                     metadata |-> metadata,
                     ret |-> IF kdb[id] # NoCard
                             THEN [NoRet EXCEPT !.err = "already exists"]
                             ELSE NoRet]]
    /\ UNCHANGED <<pipeVars, db, storeVars, gwVars, progVars, profileVars, runVars,
                   subVars, kdb, ld, kd>>

\* create_new_card after contains_key: the mnemonic, the salt and the nonce
\* are generated (here: the caller's number), the card is inserted and
\* the ChainCard returned.
CreateInsert(k) ==
    /\ kc[k].pc = "insert"
    /\ kdb' = [kdb EXCEPT ![kc[k].id] =
                  [encrypted_mnemonic_phrase |->
                       encrypt(k, derive_key(kc[k].password, k), k),
                   salt |-> k, nonce |-> k, metadata |-> kc[k].metadata]]
    /\ kc' = [kc EXCEPT ![k].pc = "done",
                        ![k].ret =
                            [err |-> "Ok",
                             pubkey |-> pubkey_from_seed(
                                            k, kc[k].bip39_passphrase),
                             metadata |-> kc[k].metadata]]
    /\ UNCHANGED <<pipeVars, db, storeVars, gwVars, progVars, profileVars, runVars,
                   subVars, ld, kd>>

\* load_card
load_card(id, password, bip39_passphrase) ==
    IF kdb[id] = NoCard THEN [NoRet EXCEPT !.err = "not found"]
    ELSE LET storable_data == kdb[id]
             key == derive_key(password, storable_data.salt)
             decrypted == decrypt(storable_data.encrypted_mnemonic_phrase,
                                  storable_data.nonce, key)
         IN  IF decrypted.err # "Ok"
             THEN [NoRet EXCEPT !.err = decrypted.err]
             ELSE [err |-> "Ok",
                   pubkey |-> pubkey_from_seed(decrypted.plaintext,
                                               bip39_passphrase),
                   metadata |-> storable_data.metadata]

\* A call of load_card with any arguments.
LoadCard ==
    /\ \E id \in CardIds, password \in Passwords,
          bip39_passphrase \in Passphrases :
          ld' = [tick |-> 1 - ld.tick, id |-> id, password |-> password,
                 bip39_passphrase |-> bip39_passphrase,
                 ret |-> load_card(id, password, bip39_passphrase)]
    /\ UNCHANGED <<pipeVars, db, storeVars, gwVars, progVars, profileVars, runVars,
                   subVars, kdb, kc, kd>>

\* update_metadata is called with MetadataUpdate::Replace; its first step
\* is db.get, which fails when the card is absent.
UpdateGet ==
    /\ kd.pc = "idle"
    /\ \E id \in CardIds, metadata \in Metadata :
          kd' = [kd EXCEPT !.pc = IF kdb[id] = NoCard THEN "idle"
                                  ELSE "insert",
                           !.id = id, !.storable_data = kdb[id],
                           !.metadata = metadata]
    /\ UNCHANGED <<pipeVars, db, storeVars, gwVars, progVars, profileVars,
                   runVars, subVars, kdb, kc, ld>>

\* update_metadata after db.get: the card that was read is inserted with
\* the new metadata.
UpdateInsert ==
    /\ kd.pc = "insert"
    /\ kdb' = [kdb EXCEPT ![kd.id] =
                  [kd.storable_data EXCEPT !.metadata = kd.metadata]]
    /\ kd' = [kd EXCEPT !.pc = "idle"]
    /\ UNCHANGED <<pipeVars, db, storeVars, gwVars, progVars, profileVars,
                   runVars, subVars, kc, ld>>

\* delete_card: db.remove, which is one operation of the database.
DeleteCard ==
    /\ \E id \in CardIds :
          /\ kdb' = [kdb EXCEPT ![id] = NoCard]
          /\ kd' = [kd EXCEPT !.del_id = id,
                              !.del_err = IF kdb[id] = NoCard
                                          THEN "not found" ELSE "Ok"]
    /\ UNCHANGED <<pipeVars, db, storeVars, gwVars, progVars, profileVars,
                   runVars, subVars, kc, ld>>

\* two callers of create_new_card on the threads of the runtime
KeyNext ==
    \/ \E k \in Callers : CreateContainsKey(k)
    \/ \E k \in Callers : CreateInsert(k)
    \/ LoadCard

KeySpec == Init /\ [][KeyNext]_vars

\* one caller of create_new_card, and load_card
CardNext ==
    \/ CreateContainsKey(1)
    \/ CreateInsert(1)
    \/ LoadCard

CardSpec == Init /\ [][CardNext]_vars

DelNext ==
    \/ CreateContainsKey(1)
    \/ CreateInsert(1)
    \/ UpdateGet
    \/ UpdateInsert
    \/ DeleteCard
    \/ LoadCard

\* create_new_card, update_metadata and delete_card on the threads of the
\* runtime, and load_card
DelSpec == Init /\ [][DelNext]_vars

\* ---------------------------------------------------- EventManager::run
\* select! of EventManager::run, first branch: the future of the
\* Synchronizer has finished. The workers are tasks of their own, spawned by
\* Synchronizer::start, which keeps no handle of them: the branch does not
\* wait for them. The future of Dispatcher::run is dropped, and the
\* Dispatcher with the EventManager. The second branch is never taken:
\* run owns registration_tx, so the inbox of the Dispatcher stays open and
\* Dispatcher::run does not return.
RunSynchronizerExited ==
    /\ em_run = "running"
    /\ em_run' = "returned"
    /\ d' = [d EXCEPT !.pc = "done"]
    /\ UNCHANGED <<ledger, db, cu, lv, published, rx_pos, listeners, reg_q,
                   reg_open, chans, sent, storeVars, gwVars, progVars,
                   profileVars, keyVars, subVars>>

\* ------------------------------------- sub-streams of listen_as_user
\* what the sub-streams leave alone
SubUnchanged ==
    UNCHANGED <<pipeVars, db, storeVars, gwVars, progVars, profileVars,
                keyVars, runVars>>

\* The listener puts an event of its key into the personal sub-stream.
PersonalArrives ==
    /\ sub.personal < ListenerCapacity
    /\ sub' = [sub EXCEPT !.personal = @ + 1]
    /\ SubUnchanged

\* The listener puts an event into the interactions sub-stream.
InteractionArrives ==
    /\ sub.interactions < ListenerCapacity
    /\ sub' = [sub EXCEPT !.interactions = @ + 1]
    /\ SubUnchanged

\* The listener puts an event into the sub-stream of a followed service.
ServiceArrives ==
    /\ sub.service < ListenerCapacity
    /\ sub' = [sub EXCEPT !.service = @ + 1]
    /\ SubUnchanged

\* The inner task of a followed service: service_rx.recv(), then
\* inner_tx.send(event).await into the merged channel.
ServiceMerge ==
    /\ sub.service > 0
    /\ sub.merged < OutputCapacity
    /\ sub' = [sub EXCEPT !.service = @ - 1, !.merged = @ + 1]
    /\ SubUnchanged

\* select! { biased; .. } of the forwarding task: the branches are polled
\* in the order written, and the first that has an event is taken.
SubSelect ==
    /\ sub.pc = "recv"
    /\ \/ /\ sub.personal > 0
          /\ sub' = [sub EXCEPT !.personal = @ - 1, !.pc = "send",
                                !.cat = "PersonalEvent"]
       \/ /\ sub.personal = 0
          /\ sub.interactions > 0
          /\ sub' = [sub EXCEPT !.interactions = @ - 1, !.pc = "send",
                                !.cat = "ServiceInteractionEvent"]
       \/ /\ sub.personal = 0
          /\ sub.interactions = 0
          /\ sub.merged > 0
          /\ sub' = [sub EXCEPT !.merged = @ - 1, !.pc = "send",
                                !.cat = "ServiceSpecificEvent"]
    /\ SubUnchanged

\* tx.send(Ok(msg)).await towards the client, who is connected.
SubSend ==
    /\ sub.pc = "send"
    /\ Len(sub.out) < OutputCapacity
    /\ sub' = [sub EXCEPT !.pc = "recv", !.out = Append(@, sub.cat)]
    /\ SubUnchanged

\* The client takes the next message of its stream.
SubClientRecv ==
    /\ sub.out # <<>>
    /\ sub' = [sub EXCEPT !.out = Tail(@)]
    /\ SubUnchanged

SubNext ==
    \/ PersonalArrives
    \/ InteractionArrives
    \/ ServiceArrives
    \/ ServiceMerge
    \/ SubSelect
    \/ SubSend
    \/ SubClientRecv

\* the forwarding task and the inner tasks are tokio tasks, each of which
\* runs again whenever it can take a step, and one that waits for room in
\* a channel is served in its turn; the client keeps consuming; the
\* listener is not obliged to produce events
SubFairSpec ==
    /\ Init
    /\ [][SubNext]_vars
    /\ SF_vars(SubSelect)
    /\ SF_vars(SubSend)
    /\ SF_vars(ServiceMerge)
    /\ WF_vars(SubClientRecv)

\* the steps of the forwarding task
FwdTask == FwdRecv \/ FwdSend \/ FwdClosed \/ FwdUnsubscribe

\* the steps of Dispatcher::run
DispatcherTask ==
    \/ DispatcherRecvEvent
    \/ DispatcherRecvLagged
    \/ DispatcherRecvClosed
    \/ DispatcherSend
    \/ DispatcherRegister
    \/ DispatcherUnregister
    \/ DispatcherRegClosed
    \/ DispatcherExit

DispatcherNext ==
    \/ DispatcherRecvEvent
    \/ DispatcherRecvLagged
    \/ DispatcherRecvClosed
    \/ DispatcherSend
    \/ DispatcherRegister
    \/ DispatcherUnregister
    \/ DispatcherRegClosed
    \/ DispatcherExit
    \/ Subscribe
    \/ Unsubscribe
    \/ DropRegistrationSenders
    \/ ListenerRecv
    \/ ListenerDrop

\* ------------------------------------------------------- specifications
SyncNext ==
    \/ Produce
    \/ CatchupStart
    \/ CatchupPublish
    \/ CatchupCommit
    \/ CatchupCommitFail
    \/ CatchupDone
    \/ CatchupFail
    \/ LiveSubscribe
    \/ LivePublish
    \/ LiveCommit
    \/ LiveCommitFail
    \/ LiveFail

\* the two workers of the Synchronizer against the ledger
SyncSpec == Init /\ [][SyncNext]_vars

DispNext ==
    \/ SourcePublish
    \/ SourceClose
    \/ DispatcherNext

\* the Dispatcher, the Event Manager and the listeners against any
\* sequence of published events
DispSpec == Init /\ [][DispNext]_vars

GrpcNext ==
    \/ SourcePublish
    \/ SourceClose
    \/ Subscribe
    \/ DispatcherRecvEvent
    \/ DispatcherRecvLagged
    \/ DispatcherRecvClosed
    \/ DispatcherSend
    \/ DispatcherRegister
    \/ ListenerRecv
    \/ stream_events
    \/ StreamRecvEvent
    \/ StreamSend
    \/ StreamRecvErr
    \/ StreamClientRecv
    \/ StreamClientDrop

\* the two receivers of the broadcast channel, the Dispatcher and a
\* stream_events task, against any sequence of published events
GrpcSpec == Init /\ [][GrpcNext]_vars

FwdNext ==
    \/ SourcePublish
    \/ listen_as_user
    \/ FwdRecv
    \/ FwdSend
    \/ FwdClosed
    \/ FwdUnsubscribe
    \/ ClientRecv
    \/ ClientDisconnect
    \/ Unsubscribe
    \/ DispatcherRecvEvent
    \/ DispatcherRecvLagged
    \/ DispatcherSend
    \/ DispatcherRegister
    \/ DispatcherUnregister

\* a listen_as_* stream of the gateway: the Dispatcher and the forwarding
\* task are tokio tasks, each of which runs again whenever it can take a
\* step, and a task that waits for room in a channel is served in its
\* turn; the ledger and the clients are not obliged to act
FwdFairSpec ==
    /\ Init
    /\ [][FwdNext]_vars
    /\ SF_vars(FwdTask)
    /\ SF_vars(DispatcherTask)

ShutNext ==
    \/ SourcePublish
    \/ stop
    \/ WorkersStop
    \/ HandlesDropped
    \/ Subscribe
    \/ ListenerRecv
    \/ DispatcherRecvEvent
    \/ DispatcherRecvLagged
    \/ DispatcherRecvClosed
    \/ DispatcherSend
    \/ DispatcherRegister
    \/ DispatcherRegClosed
    \/ DispatcherExit

\* shutdown of the engine: after the signal the readers end and every
\* handle is dropped, so that both inputs of the Dispatcher close, and the
\* Dispatcher task runs whenever it can take a step; the listeners are
\* not obliged to take what is in their channels
ShutFairSpec ==
    /\ Init
    /\ [][ShutNext]_vars
    /\ WF_vars(WorkersStop)
    /\ WF_vars(HandlesDropped)
    /\ SF_vars(DispatcherTask)

\* the whole pipeline with every registration held: workers, broadcast
\* channel, Dispatcher and consuming listeners
Next ==
    \/ SyncNext
    \/ Subscribe
    \/ DispatcherRecvEvent
    \/ DispatcherRecvLagged
    \/ DispatcherRecvClosed
    \/ DispatcherSend
    \/ DispatcherRegister
    \/ ListenerRecv

Spec == Init /\ [][Next]_vars

RunNext ==
    \/ SyncNext
    \/ Subscribe
    \/ DispatcherRecvEvent
    \/ DispatcherRecvLagged
    \/ DispatcherRecvClosed
    \/ DispatcherSend
    \/ DispatcherRegister
    \/ ListenerRecv
    \/ RunSynchronizerExited

\* the two services under EventManager::run
RunSpec == Init /\ [][RunNext]_vars

\* listen_as_user or listen_as_admin called before the first event is
\* published: every event is then published after the call has returned.
ListenBeforeEvents ==
    /\ published = <<>>
    /\ Subscribe

ListenNext ==
    \/ SourcePublish
    \/ SourceClose
    \/ ListenBeforeEvents
    \/ DispatcherRecvEvent
    \/ DispatcherRecvLagged
    \/ DispatcherRecvClosed
    \/ DispatcherSend
    \/ DispatcherRegister
    \/ ListenerRecv

\* listeners that exist before the first event
ListenSpec == Init /\ [][ListenNext]_vars

\* A second listen_as_user / listen_as_admin for the key of the stream
\* that is being forwarded: the Event Manager makes another listener of
\* the same key and sends its registration.
ListenAgain ==
    /\ fw.pc \in {"recv", "send"}
    /\ \A c \in 1..Len(chans) : chans[c].key = fw.key => c = fw.chan
    /\ subscribe_raw(fw.key)

StreamsNext ==
    \/ SourcePublish
    \/ listen_as_user
    \/ ListenAgain
    \/ FwdRecv
    \/ FwdSend
    \/ FwdClosed
    \/ FwdUnsubscribe
    \/ ClientRecv
    \/ ClientDisconnect
    \/ DispatcherRecvEvent
    \/ DispatcherRecvLagged
    \/ DispatcherSend
    \/ DispatcherRegister
    \/ DispatcherUnregister
    \/ ListenerRecv

\* two streams of one key
StreamsSpec == Init /\ [][StreamsNext]_vars

FailNext ==
    \/ SourcePublish
    \/ listen_as_user_invalid_service
    \/ Subscribe
    \/ DispatcherRecvEvent
    \/ DispatcherRecvLagged
    \/ DispatcherSend
    \/ DispatcherRegister
    \/ ListenerRecv

\* a listen_as_user request that fails, beside the Dispatcher
FailSpec == Init /\ [][FailNext]_vars

\* ================================================================ claims
Count(s, x) == Cardinality({i \in 1..Len(s) : s[i] = x})

\* the identity keys an event names, per variant
RelevanceSet(event) ==
    IF event.kind = "Unknown" THEN {}
    ELSE IF event.kind \in {"UserProfileCreated", "UserCommandDispatched",
                            "AdminCommandDispatched"}
         THEN {event.k1, event.k2}
         ELSE {event.k1}

\* the keys that have a registration
Registered == {k \in Keys : listeners[k] # NoChan}

\* C1: every event identifier that is sent on the broadcast channel is sent
\* on it exactly once, whatever the interleaving of the two workers.
C1_ExactlyOnce == \A i \in Range(published) : Count(published, i) = 1

\* C2: the events sent to one listener channel are in non-decreasing ledger
\* position order.
C2_InOrder ==
    \A i, j \in 1..Len(sent) :
        (i < j /\ sent[i][1] = sent[j][1])
            => published[sent[i][2]] <= published[sent[j][2]]

\* C3: the persisted cursor names an event already handed to the broadcast
\* channel and no event at or before it is still unpublished.
C3_CursorBehindPublished ==
    \A i \in 1..db.last_slot : i \in Range(published)

\* C4: the Dispatcher never waits for a listener whose channel is full.
C4_NeverWaits == d.pc = "route" => ~SendWaits(Head(d.todo))

\* C5: a failed send to the channel of a key removes the registration of
\* that key in the same delivery attempt.
C5_FailedSendRemoves ==
    [][(d.pc = "route" /\ SendFails(Head(d.todo)) /\ d' # d)
          => listeners'[Head(d.todo)] = NoChan]_vars

\* every send so far went to the channel of a relevant key, and every
\* relevant registered key already passed in the current delivery has been
\* sent the event
SendsInRelevance ==
    /\ \A i \in 1..Len(sent) :
          chans[sent[i][1]].key \in RelevanceSet(EventAt(sent[i][2]))
    /\ d.pc = "route" =>
          \A k \in RelevanceSet(EventAt(d.idx)) \ Range(d.todo) :
              (k \in Registered /\ chans[listeners[k]].rx)
                  => <<listeners[k], d.idx>> \in Range(sent)
    /\ d.pc = "route" => Range(d.todo) \subseteq RelevanceSet(EventAt(d.idx))

\* C6: an event is sent to exactly the registered keys of its relevance
\* set: a registered key outside the set is sent nothing, a relevant key
\* with a registration is sent the event, and a relevant key without one
\* neither changes the registration map nor stops the loop.
C6_ExactRelevance ==
    /\ []SendsInRelevance
    /\ [][d.pc = "route"
            => (listeners' = listeners /\ d'.pc \in {"route", "select"})]_vars

\* C6 witness: with A and B registered and C not, an event relevant to A
\* and C has been sent to A.
C6_Witness ==
    /\ {"A", "B"} \subseteq Registered
    /\ "C" \notin Registered
    /\ \E i \in 1..Len(sent) :
          /\ chans[sent[i][1]].key = "A"
          /\ RelevanceSet(EventAt(sent[i][2])) = {"A", "C"}
    /\ d.pc = "select"

C8_ExitOnlyWhenClosed == d.pc = "done" => (bc_closed /\ ~reg_open)

\* C9: after a lag signal the Dispatcher goes on receiving: whenever it
\* waits in select! and the broadcast channel holds an event it has not
\* passed, its event branch is waiting for that event.
C9_ResumesAfterLag ==
    (d.pc = "select" /\ rx_pos < Len(published)) => d.ev_en

\* C10: a publish is never held back by the Dispatcher, and a Dispatcher
\* that is more than the capacity behind gets the lag signal, not the
\* lost events.
C10_PublishNeverWaits ==
    /\ (~bc_closed /\ Len(ledger) < MaxEvents) => ENABLED SourcePublish
    /\ (d.pc = "select" /\ d.ev_en /\ Len(published) - rx_pos > BroadcastCapacity)
          => (ENABLED DispatcherRecvLagged /\ ~ENABLED DispatcherRecvEvent)

\* C10 witness: events were published beyond the retention window of a
\* Dispatcher that has not taken them yet.
C10_Witness ==
    /\ Lag(published, rx_pos) > 0
    /\ d.pc = "select"
    /\ d.ev_en

\* C11: once a cursor write has failed in a worker, nothing more is sent
\* on the broadcast channel by any worker.
C11_StoreFailureStopsAll ==
    [][(cu.pc = "store_failed" \/ lv.pc = "store_failed")
          => published' = published]_vars

\* C12: once a worker has ended with a terminal source error, the other
\* worker does not go on sending on the broadcast channel beside it.
C12_NoLonePublisher ==
    [][((cu.pc = "failed" /\ cu'.pc = "failed")
        \/ (lv.pc = "failed" /\ lv'.pc = "failed"))
          => published' = published]_vars

\* C16: through any sequence of set_sync_state calls and crashes, the
\* stored pair, in the tree and on disk, is the pair of arguments of one
\* call or the initial pair.
C16_StoredPairIsOneCall ==
    /\ Pair(db) \in written \cup {InitialPair}
    /\ Pair(disk) \in written \cup {InitialPair}

\* C16 witness: a crash interrupted a call after an earlier call with
\* another slot and another signature had become durable.
C16_Witness ==
    /\ wr.pc = "crashed"
    /\ Pair(db) # InitialPair
    /\ wr.slot # db.last_slot
    /\ wr.sig # db.last_sig
    /\ <<wr.slot, wr.sig>> \in written

\* C17: the pair a reader gets from get_last_slot followed by
\* get_last_sig was written by one set_sync_state call (or is the initial
\* pair).
C17_ReadPairIsOneCall ==
    rd.pc = "pair" => <<rd.slot, rd.sig>> \in written \cup {InitialPair}

\* C18: when set_sync_state has returned an error, the stored cursor is
\* the one from before the call.
C18_ErrLeavesCursor == wr.pc = "err" => db = wr.before

\* the broadcast indices in lo+1..hi whose event is not of the unknown
\* variant, in order
RECURSIVE KnownBetween(_, _)
KnownBetween(lo, hi) ==
    IF hi <= lo THEN <<>>
    ELSE IF EventAt(hi).kind = "Unknown" THEN KnownBetween(lo, hi - 1)
         ELSE Append(KnownBetween(lo, hi - 1), hi)

\* no event of the unknown variant was sent to a listener channel or to
\* the stream client, and a stream task that waits for the next event has
\* sent the client every other event it received
UnknownNotDelivered ==
    /\ \A i \in 1..Len(sent) : EventAt(sent[i][2]).kind # "Unknown"
    /\ \A i \in 1..Len(grpc.log) : EventAt(grpc.log[i]).kind # "Unknown"
    /\ grpc.pc = "recv" => grpc.log = KnownBetween(grpc.start, grpc.pos)

\* the Dispatcher, or the stream task, receives an event of the unknown
\* variant in this step
DispatcherGetsUnknown ==
    /\ d.pc = "select"
    /\ Lag(published, rx_pos) = 0
    /\ rx_pos' = rx_pos + 1
    /\ EventAt(rx_pos + 1).kind = "Unknown"
StreamGetsUnknown ==
    /\ grpc.pc = "recv"
    /\ Lag(published, grpc.pos) = 0
    /\ grpc'.pos = grpc.pos + 1
    /\ EventAt(grpc.pos + 1).kind = "Unknown"

\* C13: an event of the unknown variant is delivered to no listener
\* channel and to no stream client, and the step that receives it leaves
\* the Dispatcher in a fresh select! with both branches enabled and the
\* stream task waiting for the next event, so the events after it are
\* delivered.
C13_UnknownSkipped ==
    /\ []UnknownNotDelivered
    /\ [][DispatcherGetsUnknown => d' = Select]_vars
    /\ [][StreamGetsUnknown => grpc'.pc = "recv"]_vars

\* C13 witness: the Dispatcher and the stream task have both passed an
\* event of the unknown variant and have both delivered the event
\* published after it.
C13_Witness ==
    /\ Len(published) = 2
    /\ EventAt(1).kind = "Unknown"
    /\ grpc.start = 0
    /\ grpc.log = <<2>>
    /\ \E i \in 1..Len(sent) : sent[i][2] = 2

\* C14: once the client of a listen_as_* stream is gone, the forwarding
\* task ends and the Dispatcher drops the registration of the key.
C14_DisconnectCleansUp ==
    (fw.pc \in {"recv", "send", "unsub"} /\ ~fw.client)
        ~> (fw.pc = "ended" /\ listeners[fw.key] = NoChan)

\* C15: once the shutdown signal is given, the workers end, so that
\* nothing more is published, and the Dispatcher loop exits.
C15_StopEnds == shutdown ~> (bc_closed /\ d.pc = "done")

\* an approve_funding instruction is processed in this step
ApproveStep == ret'.tick # ret.tick /\ ret'.instr = "approve_funding"

\* C19: an approve_funding that is given another account than
\* funding_request.user_wallet as user_wallet fails and moves no lamports.
C19_OnlyToRequestWallet ==
    [][(ApproveStep /\ ret'.user_wallet # funding_request.user_wallet)
          => (ret'.err # "Ok" /\ lamports' = lamports)]_vars

\* C20 as stated: on a request that is Approved, every approve_funding
\* fails with RequestAlreadyProcessed and changes no balance.
C20_LaterCallsAlreadyProcessed ==
    [][(ApproveStep /\ funding_request.status = Approved)
          => (ret'.err = "RequestAlreadyProcessed" /\ lamports' = lamports)
      ]_vars

\* C20: lamports are transferred for a request at most once: a successful
\* approve_funding finds the request Pending and leaves it Approved, and on
\* a request that is not Pending every approve_funding fails and changes
\* neither a balance nor the request; the error is RequestAlreadyProcessed
\* when the call is made by the active target admin with its own PDA, and
\* that of the failing earlier check otherwise.
C20_ApprovedAtMostOnce ==
    /\ [][(ApproveStep /\ ret'.err = "Ok")
            => (funding_request.status = Pending
                /\ funding_request'.status = Approved)]_vars
    /\ [][(ApproveStep /\ funding_request.status # Pending)
            => (/\ ret'.err \in {"RequestAlreadyProcessed", "SenderInactive",
                                  "Unauthorized", "ConstraintSeeds"}
                /\ lamports' = lamports
                /\ funding_request' = funding_request)]_vars
    /\ [][(/\ ApproveStep
           /\ funding_request.status # Pending
           /\ ret'.admin = AdminPda(ret'.authority, ret'.co_signer)
           /\ admin_account[ret'.admin].active
           /\ funding_request.target_admin = ret'.authority)
            => ret'.err = "RequestAlreadyProcessed"]_vars

\* C20 witness: a request has been approved, the lamports have moved, and
\* a later approve_funding has failed with RequestAlreadyProcessed.
C20_Witness ==
    /\ funding_request.status = Approved
    /\ lamports["pda1"] < 8
    /\ ret.instr = "approve_funding"
    /\ ret.err = "RequestAlreadyProcessed"

\* the checks of approve_funding that precede the rent check pass
ApproveReachesRentCheck ==
    /\ ApproveStep
    /\ ret'.admin = AdminPda(ret'.authority, ret'.co_signer)
    /\ admin_account[ret'.admin].active
    /\ funding_request.exists
    /\ funding_request.target_admin = ret'.authority
    /\ funding_request.status = Pending

\* C21: approve_funding succeeds only if the lamports of the admin PDA
\* minus the amount are at least the rent-exempt minimum, as the integers
\* have it; otherwise, also when the amount exceeds the lamports, it fails
\* with AdminInsufficientFunds and no balance changes.
C21_RentCheckWithoutWrap ==
    [][ApproveReachesRentCheck
          => IF lamports[ret'.admin] - funding_request.amount
                  >= RentExemptMinimum
             THEN TRUE
             ELSE ret'.err = "AdminInsufficientFunds" /\ lamports' = lamports
      ]_vars

\* a dispatch_command instruction is processed in this step
DispatchStep == ret'.tick # ret.tick /\ ret'.instr = "dispatch_command"

\* the account is a profile that has been deactivated
Deactivated(a) == IsProfile(a) /\ ~Meta(a).active

\* C22 as stated: with a deactivated account as sender every
\* dispatch_command fails with SenderInactive, with one as recipient with
\* RecipientInactive, and no CommandEvent is emitted; approve_funding by a
\* deactivated admin fails with SenderInactive and moves no lamports.
C22_InactiveErrorCodes ==
    /\ [][(DispatchStep /\ Deactivated(cmd'.sender))
            => (ret'.err = "SenderInactive" /\ cmd'.events = <<>>)]_vars
    /\ [][(DispatchStep /\ Deactivated(cmd'.recipient))
            => (ret'.err = "RecipientInactive" /\ cmd'.events = <<>>)]_vars
    /\ [][(/\ ApproveStep
           /\ ret'.admin = AdminPda(ret'.authority, ret'.co_signer)
           /\ ~admin_account[ret'.admin].active
           /\ funding_request.exists)
            => (ret'.err = "SenderInactive" /\ lamports' = lamports)]_vars

\* the checks of dispatch_command that precede the active check of the
\* sender pass
DispatchReachesSenderActive ==
    /\ DispatchStep
    /\ ProgramOwned(cmd'.sender) /\ ProgramOwned(cmd'.recipient)
    /\ cmd'.payload_len <= MaxPayload
    /\ IsProfile(cmd'.sender)
    /\ Meta(cmd'.sender).owner = ret'.authority
    /\ Meta(cmd'.sender).co_signer = ret'.co_signer

\* C22: a dispatch_command with a deactivated account as sender or as
\* recipient fails and emits no CommandEvent, and an approve_funding by a
\* deactivated admin fails and changes neither a balance nor the request.
\* The error is SenderInactive when the sender is deactivated and the
\* earlier checks pass, RecipientInactive when the recipient is deactivated
\* and the sender passes all its checks, and SenderInactive for an
\* approve_funding of an existing request signed by the signers of the
\* deactivated admin PDA.
C22_DeactivatedIsRefused ==
    /\ [][(DispatchStep
           /\ (Deactivated(cmd'.sender) \/ Deactivated(cmd'.recipient)))
            => (ret'.err # "Ok" /\ cmd'.events = <<>>)]_vars
    /\ [][(DispatchReachesSenderActive /\ Deactivated(cmd'.sender))
            => ret'.err = "SenderInactive"]_vars
    /\ [][(/\ DispatchReachesSenderActive
           /\ Meta(cmd'.sender).active
           /\ Deactivated(cmd'.recipient))
            => ret'.err = "RecipientInactive"]_vars
    /\ [][(ApproveStep /\ ~admin_account[ret'.admin].active)
            => (/\ ret'.err # "Ok"
                /\ lamports' = lamports
                /\ funding_request' = funding_request)]_vars
    /\ [][(/\ ApproveStep
           /\ ~admin_account[ret'.admin].active
           /\ funding_request.exists
           /\ admin_account[ret'.admin].owner = ret'.authority
           /\ admin_account[ret'.admin].co_signer = ret'.co_signer)
            => ret'.err = "SenderInactive"]_vars

\* C22 witness: a dispatch_command of an active sender to the deactivated
\* admin PDA has failed with RecipientInactive.
C22_Witness ==
    /\ ret.instr = "dispatch_command"
    /\ cmd.sender = "upda1"
    /\ cmd.recipient = "pda1"
    /\ ~admin_account["pda1"].active
    /\ ret.err = "RecipientInactive"
    /\ cmd.events = <<>>

\* an instruction whose context names authority and co_signer is processed
AuthStep ==
    /\ ret'.tick # ret.tick
    /\ ret'.instr \in {"deactivate_admin", "deactivate_user",
                       "update_admin_comm_key", "update_user_comm_key",
                       "approve_funding"}

\* the signers of the step are not the owner and co_signer stored in the
\* Admin or User account it was given
WrongSigners ==
    LET account == IF ret'.admin # "none" THEN ret'.admin
                   ELSE cmd'.user_account
    IN  \/ Meta(account).owner # ret'.authority
        \/ Meta(account).co_signer # ret'.co_signer

\* C23: deactivate_admin, deactivate_user, update_admin_comm_key,
\* update_user_comm_key and approve_funding given signers that are not the
\* owner and co_signer stored in the account fail with Unauthorized and
\* change no account.
C23_WrongSignersUnauthorized ==
    [][(AuthStep /\ WrongSigners)
          => (/\ ret'.err = "Unauthorized"
              /\ admin_account' = admin_account
              /\ user_account' = user_account
              /\ funding_request' = funding_request
              /\ lamports' = lamports)]_vars

\* a profile instruction has succeeded in this step
ProfileStep(instr) ==
    op'.tick # op.tick /\ op'.instr = instr /\ op'.err = "Ok"

\* a PDA's lamports minus its internal balance
UserSurplus == user_profile.lamports - user_profile.deposit_balance
AdminSurplus == admin_profile.lamports - admin_profile.balance

C26_CreateOnce ==
    /\ [](\A j, k \in Callers :
            (/\ j # k
             /\ kc[j].ret.err = "Ok" /\ kc[k].ret.err = "Ok")
                => kc[j].id # kc[k].id)
    /\ [][\A id \in CardIds : kdb[id] # NoCard => kdb'[id] = kdb[id]]_vars

\* a load_card of the id of the card that caller 1 has created
LoadOfCreated ==
    /\ ld'.tick # ld.tick
    /\ kc[1].ret.err = "Ok"
    /\ ld'.id = kc[1].id

\* C27 as stated: load_card after create_new_card returns the pubkey and
\* metadata of the created card when given the same password and
\* passphrase, another pubkey when given the same password and another or
\* no passphrase, and fails when given another password.
C27_LoadAfterCreate ==
    [][LoadOfCreated
          => IF ld'.password # kc[1].password THEN ld'.ret.err # "Ok"
             ELSE /\ ld'.ret.err = "Ok"
                  /\ ld'.bip39_passphrase = kc[1].bip39_passphrase
                        => (/\ ld'.ret.pubkey = kc[1].ret.pubkey
                            /\ ld'.ret.metadata = kc[1].ret.metadata)
                  /\ ld'.bip39_passphrase # kc[1].bip39_passphrase
                        => ld'.ret.pubkey # kc[1].ret.pubkey]_vars

\* no passphrase and the empty passphrase
Absent(bip39_passphrase) == bip39_passphrase \in {<<>>, <<"">>}

\* C27: load_card after create_new_card fails when given another password;
\* given the same password it returns the metadata of the created card,
\* and the pubkey of the created card exactly when the passphrase is the
\* same, no passphrase and the empty passphrase being the same one.
C27_LoadAfterCreateUpToEmpty ==
    [][LoadOfCreated
          => IF ld'.password # kc[1].password THEN ld'.ret.err # "Ok"
             ELSE /\ ld'.ret.err = "Ok"
                  /\ ld'.ret.metadata = kc[1].ret.metadata
                  /\ ld'.ret.pubkey = kc[1].ret.pubkey
                        <=> (\/ ld'.bip39_passphrase = kc[1].bip39_passphrase
                             \/ /\ Absent(ld'.bip39_passphrase)
                                /\ Absent(kc[1].bip39_passphrase))]_vars

\* C27 witness: a card created with the empty passphrase has been loaded
\* with no passphrase, and the pubkey is that of the created card.
C27_Witness ==
    /\ kc[1].ret.err = "Ok"
    /\ kc[1].bip39_passphrase = <<"">>
    /\ ld.id = kc[1].id
    /\ ld.password = kc[1].password
    /\ ld.bip39_passphrase = <<>>
    /\ ld.ret.err = "Ok"
    /\ ld.ret.pubkey = kc[1].ret.pubkey

\* C28: what the Dispatcher has sent to one channel is a subsequence of
\* what it received: entries of the broadcast channel whose relevance set
\* contains the key of the channel, each sent once, in the order received.
C28_PerKeySubsequence ==
    /\ \A i \in 1..Len(sent) :
          /\ sent[i][2] <= rx_pos
          /\ chans[sent[i][1]].key \in RelevanceSet(EventAt(sent[i][2]))
    /\ \A i, j \in 1..Len(sent) :
          (i < j /\ sent[i][1] = sent[j][1]) => sent[i][2] < sent[j][2]

\* C29: after EventManager::run has returned no worker publishes a further
\* event and the Dispatcher sends no event.
C29_RunReturnStopsBoth ==
    [][em_run = "returned" => (published' = published /\ sent' = sent)]_vars

\* C30: under ListenSpec every event is published after listen_as_user or
\* listen_as_admin has returned, so whenever the Dispatcher handles a key of
\* the relevance set of an event and a listener of that key exists and
\* keeps consuming, the event is sent to the channel of that listener.
C30_ListenedKeyGetsEvent ==
    [][(d.pc = "route" /\ d' # d) =>
          \A c \in 1..Len(chans) :
              (chans[c].key = Head(d.todo) /\ chans[c].rx) =>
                  sent' = Append(sent, <<c, d.idx>>)]_vars

TakesRegistration ==
    /\ d.pc = "select"
    /\ reg_q # <<>>
    /\ Head(reg_q).op = "reg"
    /\ reg_q' = Tail(reg_q)

\* C32: a registration message puts its channel in the place of the one
\* the key had, no Sender of the earlier channel is left (its receiver gets
\* end-of-stream once it has taken what the channel holds), and a channel
\* without Sender gets no further event and no Sender again.
C32_OneChannelPerKey ==
    /\ [][TakesRegistration =>
             LET k == Head(reg_q).key
                 old == listeners[k]
             IN  /\ listeners'[k] = Head(reg_q).chan
                 /\ old # NoChan =>
                       /\ \A k2 \in Keys : listeners'[k2] # old
                       /\ \A i \in 1..Len(reg_q') : reg_q'[i].chan # old]_vars
    /\ [][\A c \in 1..Len(chans) :
             SendersGone(c) =>
                 /\ Len(chans'[c].q) <= Len(chans[c].q)
                 /\ \A k \in Keys : listeners'[k] # c
                 /\ \A i \in 1..Len(reg_q') : reg_q'[i].chan # c]_vars

\* a key was registered again: its first channel has no Sender, and an
\* event was sent to the channel in its place
C32_Witness ==
    \E c \in 1..Len(chans) :
        LET k == chans[c].key
        IN  /\ listeners[k] \notin {NoChan, c}
            /\ SendersGone(c)
            /\ \E j \in 1..Len(sent) : sent[j][1] = listeners[k]

\* C33: a caller of listen_as_user or listen_as_admin is never left to the
\* mercy of another listener: when the registration inbox is full, so that
\* registration_tx.send of a caller has to wait for the Dispatcher, the
\* Dispatcher is not itself waiting for a listener to make room in its
\* channel.
C33_ListenReturns ==
    (reg_open /\ Len(reg_q) >= RegistrationCapacity) =>
        ~(d.pc = "route" /\ SendWaits(Head(d.todo)))

\* C34: an entry of the broadcast channel is sent to the channel of a key
\* at most once, however often the key occurs in the event.
C34_AtMostOneCopy ==
    \A i, j \in 1..Len(sent) : sent[i] = sent[j] => i = j

\* C35: after listen_as_user has failed on an entry of
\* specific_services_to_follow, the Dispatcher does not hold the channel
\* that the request made as the registration of the user's key.
C35_FailedListenLeavesNothing ==
    fw.pc = "failed" => listeners[fw.key] # fw.chan

\* C36: an event in the interactions sub-stream, and one in the merged
\* channel of the followed services, is in the end taken by the forwarding
\* task and passed on towards the client.
C36_SubStreamsForwarded ==
    /\ (sub.interactions > 0) ~>
           (sub.pc = "send" /\ sub.cat = "ServiceInteractionEvent")
    /\ (sub.merged > 0) ~>
           (sub.pc = "send" /\ sub.cat = "ServiceSpecificEvent")

\* C37: no write of the cursor stores a slot smaller than the slot the
\* cursor held before it.
C37_SlotNeverDecreases ==
    [][db'.last_slot >= db.last_slot]_vars

\* C38: an Admin or User account that is inactive is inactive after every
\* instruction.
C38_InactiveStaysInactive ==
    [][/\ \A a \in AdminPdas :
             ~admin_account[a].active => ~admin_account'[a].active
       /\ \A u \in UserPdas :
             ~user_account[u].active => ~user_account'[u].active]_vars

\* register_user was called for the address of a deactivated user account,
\* with the signers the address is derived from
C38_Witness ==
    /\ ret.instr = "register_user"
    /\ cmd.user_account \in UserPdas
    /\ ~user_account[cmd.user_account].active
    /\ ret.err = "AccountAlreadyInUse"

\* C39: a card that is absent, as it is once delete_card has returned Ok,
\* becomes present again only by the insert of a create_new_card of its id.
C39_DeletedStaysAbsent ==
    [][\A id \in CardIds :
          (kdb[id] = NoCard /\ kdb'[id] # NoCard) =>
              \E k \in Callers : /\ kc[k].pc = "insert"
                                 /\ kc[k].id = id
                                 /\ kc'[k].pc = "done"]_vars
====
